---- MODULE Spec2Model ----
(***************************************************************************)
(* A model of the MIFF 2025 scraper (src/miff_scraper.py): URL discovery,  *)
(* film-page field extraction, schedule-grid session extraction, session   *)
(* de-duplication and the film/session join.                               *)
(*                                                                         *)
(* Python strings are sequences of one-character strings, so that          *)
(* lower(), split(), substring tests and regular expressions are computed  *)
(* character by character.  A dict is a function from its keys.            *)
(***************************************************************************)
EXTENDS Integers, Sequences, FiniteSets, TLC

VARIABLES
    pc,             \* position of the operation a specification exercises
    films_data,     \* self.films_data
    sessions_data,  \* self.sessions_data
    combined_data,  \* self.combined_data
    combined_src,   \* history: for each combined row, the film / session it was built from
    all_sessions,   \* scrape_all_sessions: the local list before de-duplication
    film_page,      \* scrape_film_details: the page the fetch of film_url returned
    film_data,      \* scrape_film_details: the value returned
    page,           \* get_all_film_urls: the loop variable
    all_film_urls,  \* get_all_film_urls: the working set
    film_urls,      \* get_all_film_urls: the value returned, an unordered list
    fetched,        \* history: the listing pages fetched so far, with what each did
    listing_links,  \* history: the hrefs of the hyperlinks of the last page fetched
    schedule_page,  \* scrape_schedule_for_date: the page the fetch returned
    schedule_sessions, \* scrape_schedule_for_date: the list returned
    film_queue,     \* scrape_all_films: the film URLs the loop has yet to visit
    date_index,     \* scrape_all_sessions: the position of the loop in festival_dates
    failures,       \* history: how many film pages and how many dates failed so far
    requested_days, \* history: the dates whose schedule page was requested, in order
    saved_data,     \* save_all_data: the lists written to the CSV files, None before
    site,           \* the site the scraper runs against: its listing, its failing pages
    parse_args,     \* parse_session_datetime: session_date and session_time
    parsed          \* parse_session_datetime: what it returned

dataVars == <<films_data, sessions_data, combined_data, combined_src, all_sessions>>
filmVars == <<film_page, film_data>>
discoveryVars == <<page, all_film_urls, film_urls, fetched, listing_links>>
scheduleVars == <<schedule_page, schedule_sessions>>
runVars == <<film_queue, date_index, failures, requested_days, saved_data, site>>
consumerVars == <<parse_args, parsed>>
vars == <<pc, dataVars, filmVars, discoveryVars, scheduleVars, runVars, consumerVars>>

(***************************************************************************)
(* Bounds of the model.                                                    *)
(***************************************************************************)
MaxFilms == 2
MaxSessions == 2
MaxAllSessions == 3
MaxLinks == 3
MaxPageLinks == 2
MaxVariedPages == 3
MaxParagraphs == 3
MaxQuotes == 3
MaxVariedDates == 2
MaxCells == 2
MaxWrap == 3

(***************************************************************************)
(* Strings.                                                                *)
(***************************************************************************)
EMPTY == <<>>
base_url == <<"h", "t", "t", "p", "s", ":", "/", "/", "m", "i", "f", "f", ".", "c", "o", "m", ".", "a", "u">>
FILM_PATH == <<"/", "p", "r", "o", "g", "r", "a", "m", "/", "f", "i", "l", "m", "/">>
NO_SESSIONS_FOUND == <<"N", "o", " ", "s", "e", "s", "s", "i", "o", "n", "s", " ", "f", "o", "u", "n", "d">>
UNKNOWN == <<"U", "n", "k", "n", "o", "w", "n">>

UpperToLower ==
    [c \in {"A", "B", "C", "D", "E", "F", "G", "H", "I", "J", "K", "L", "M",
            "N", "O", "P", "Q", "R", "S", "T", "U", "V", "W", "X", "Y", "Z"} |->
        CASE c = "A" -> "a" [] c = "B" -> "b" [] c = "C" -> "c" [] c = "D" -> "d"
          [] c = "E" -> "e" [] c = "F" -> "f" [] c = "G" -> "g" [] c = "H" -> "h"
          [] c = "I" -> "i" [] c = "J" -> "j" [] c = "K" -> "k" [] c = "L" -> "l"
          [] c = "M" -> "m" [] c = "N" -> "n" [] c = "O" -> "o" [] c = "P" -> "p"
          [] c = "Q" -> "q" [] c = "R" -> "r" [] c = "S" -> "s" [] c = "T" -> "t"
          [] c = "U" -> "u" [] c = "V" -> "v" [] c = "W" -> "w" [] c = "X" -> "x"
          [] c = "Y" -> "y" [] c = "Z" -> "z"]

\* str.lower()
Lower(s) == [i \in 1..Len(s) |-> IF s[i] \in DOMAIN UpperToLower THEN UpperToLower[s[i]] ELSE s[i]]

\* positions of the character c in s
Positions(s, c) == {i \in 1..Len(s) : s[i] = c}

SetMax(S) == CHOOSE m \in S : \A n \in S : n <= m

\* s.split('/')[-1]: what follows the last '/', the whole of s when it has none
LastSegment(s) ==
    IF Positions(s, "/") = {} THEN s
    ELSE SubSeq(s, SetMax(Positions(s, "/")) + 1, Len(s))

Whitespace == {" ", "\t", "\n", "\r"}

SetMin(S) == CHOOSE m \in S : \A n \in S : m <= n

\* str.strip(), which get_text(strip=True) applies to a text node
Strip(s) ==
    LET kept == {i \in 1..Len(s) : s[i] \notin Whitespace}
    IN  IF kept = {} THEN EMPTY ELSE SubSeq(s, SetMin(kept), SetMax(kept))

\* sub in s
Contains(s, sub) ==
    \E i \in 1..(Len(s) - Len(sub) + 1) : SubSeq(s, i, i + Len(sub) - 1) = sub

Digits == {"0", "1", "2", "3", "4", "5", "6", "7", "8", "9"}

\* s[:n]
Prefix(s, n) == SubSeq(s, 1, IF Len(s) < n THEN Len(s) ELSE n)

CharAt(s, i, chars) == i >= 1 /\ i <= Len(s) /\ s[i] \in chars

DigitsAt(s, i, n) == \A k \in 0..(n - 1) : CharAt(s, i + k, Digits)

\* \s* from position i: the position after the run of whitespace
RECURSIVE SkipSpace(_, _)
SkipSpace(s, i) == IF CharAt(s, i, Whitespace) THEN SkipSpace(s, i + 1) ELSE i

\* sep.join(texts)
RECURSIVE Join(_, _)
Join(texts, sep) ==
    IF texts = <<>> THEN EMPTY
    ELSE IF Len(texts) = 1 THEN texts[1]
    ELSE texts[1] \o sep \o Join(Tail(texts), sep)

\* Python's None
None == [None |-> TRUE]

\* no page fetched
NoPage == [status |-> "none"]

\* the variables of scrape_film_details and of get_all_film_urls before they run
NoFilmPage == film_page = NoPage /\ film_data = None

NoDiscovery ==
    page = 1 /\ all_film_urls = {} /\ film_urls = {} /\ fetched = <<>> /\ listing_links = <<>>

NoSchedule == schedule_page = NoPage /\ schedule_sessions = <<>>

\* the variables of a run and of the consumer of its data before they start
NoSite == [site |-> "any"]

NoRun ==
    /\ film_queue = <<>> /\ date_index = 1 /\ failures = [films |-> 0, dates |-> 0]
    /\ requested_days = <<>> /\ saved_data = None /\ site = NoSite
    /\ parse_args = None /\ parsed = None

(***************************************************************************)
(* Records.                                                                *)
(***************************************************************************)
\* the Film dict as scrape_film_details first builds it
FilmRecord(film_url) ==
    [film_url |-> film_url, film_id |-> LastSegment(film_url),
     title |-> EMPTY, director |-> EMPTY, year |-> EMPTY, runtime |-> EMPTY,
     countries |-> EMPTY, languages |-> EMPTY, genres |-> EMPTY,
     premiere_status |-> EMPTY, strands |-> EMPTY, description |-> EMPTY,
     synopsis |-> EMPTY, viewer_advice |-> EMPTY, review_quotes |-> EMPTY]

FilmKeys == DOMAIN FilmRecord(EMPTY)

\* a session dict whose film_id is read off the link's text
SessionRecordIdFromTitle(date, film_title, film_url, venue, time, context) ==
    [date |-> date, film_title |-> film_title, film_id |-> LastSegment(film_title),
     film_url |-> film_url, venue |-> venue, time |-> time, context |-> context]

\* a session dict as sweep 1 of scrape_schedule_for_date builds it
SessionRecord(date, film_title, film_url, venue, time, context) ==
    [date |-> date, film_title |-> film_title, film_id |-> LastSegment(film_url),
     film_url |-> film_url, venue |-> venue, time |-> time, context |-> context]

\* a session dict as sweep 2 builds it: no context, an extraction-method marker
TimeSlotRecord(date, film_title, film_url, venue, time) ==
    [date |-> date, film_title |-> film_title, film_id |-> LastSegment(film_url),
     film_url |-> film_url, venue |-> venue, time |-> time,
     extraction_method |-> "time_slot"]

\* dict.get(key, default)
DictGet(d, k, default) == IF k \in DOMAIN d THEN d[k] ELSE default

\* dict.update(u) on a copy of d
DictUpdate(d, u) == [k \in DOMAIN d \cup DOMAIN u |-> IF k \in DOMAIN u THEN u[k] ELSE d[k]]

(***************************************************************************)
(* get_all_film_urls, one loop iteration at a time.  A response is the     *)
(* outcome of the fetch of a listing page: raised or not, its status code  *)
(* and the href of each of its hyperlinks in document order.               *)
(***************************************************************************)
PAGE_RANGE_START == 1
PAGE_RANGE_STOP == 25
HTTP_OK == 200

HTTPS_SCHEME == <<"h", "t", "t", "p", "s", ":">>
HTTP_SCHEME == <<"h", "t", "t", "p", ":">>

StartsWith(s, prefix) == Len(s) >= Len(prefix) /\ SubSeq(s, 1, Len(prefix)) = prefix

\* href.split('#')[0]
BeforeHash(href) ==
    IF Positions(href, "#") = {} THEN href
    ELSE SubSeq(href, 1, SetMin(Positions(href, "#")) - 1)

\* urljoin(base, ref) for a base without a path and a reference without dot
\* segments: an absolute URL stands, a path is put under the base
UrlJoin(base, ref) ==
    IF ref = EMPTY THEN base
    ELSE IF StartsWith(ref, HTTPS_SCHEME) \/ StartsWith(ref, HTTP_SCHEME) THEN ref
    ELSE IF StartsWith(ref, <<"/", "/">>) THEN HTTPS_SCHEME \o ref
    ELSE IF ref[1] = "/" THEN base \o ref
    ELSE base \o <<"/">> \o ref

\* the loop over a page's links: acc is the working set and the page_films counter
RECURSIVE AddPageLinksKeepingFragment(_, _, _)
AddPageLinksKeepingFragment(acc, links, i) ==
    IF i > Len(links) THEN acc
    ELSE LET href == links[i]
             full_url == UrlJoin(base_url, href)
         IN  IF Contains(href, FILM_PATH) /\ full_url \notin acc.urls
             THEN AddPageLinksKeepingFragment([urls |-> acc.urls \cup {full_url},
                                page_films |-> acc.page_films + 1], links, i + 1)
             ELSE AddPageLinksKeepingFragment(acc, links, i + 1)
RECURSIVE AddPageLinks(_, _, _)
AddPageLinks(acc, links, i) ==
    IF i > Len(links) THEN acc
    ELSE LET href == links[i]
             clean_href == BeforeHash(href)
             full_url == UrlJoin(base_url, clean_href)
         IN  IF Contains(href, FILM_PATH) /\ full_url \notin acc.urls
             THEN AddPageLinks([urls |-> acc.urls \cup {full_url},
                                page_films |-> acc.page_films + 1], links, i + 1)
             ELSE AddPageLinks(acc, links, i + 1)

\* whether the iteration ends the loop: an exception, a status other than 200,
\* or a page that added no film
BreaksIgnoringEmptyPage(response, page_films) ==
    response.raised \/ response.status_code # HTTP_OK
BreaksUnlessRaised(response, page_films) ==
    ~response.raised /\ (response.status_code # HTTP_OK \/ page_films = 0)
Breaks(response, page_films) ==
    \/ response.raised
    \/ response.status_code # HTTP_OK
    \/ page_films = 0

\* one iteration of the loop body on a response
ListingIteration(urls, response) ==
    IF response.raised \/ response.status_code # HTTP_OK
    THEN [urls |-> urls, page_films |-> 0]
    ELSE AddPageLinks([urls |-> urls, page_films |-> 0], response.links, 1)

\* what is remembered of one fetch: the page number, the outcome, the size of
\* the working set before and after the iteration, the working set after it
\* and the page_films counter
FetchedEntry(p, response, before, result) ==
    [page |-> p, raised |-> response.raised, status_code |-> response.status_code,
     before |-> Cardinality(before), after |-> Cardinality(result.urls),
     urls |-> result.urls, page_films |-> result.page_films]

(***************************************************************************)
(* scrape_film_details.  A film page is the outcome of its fetch and the   *)
(* elements the function looks up, in document order: the texts of its h1  *)
(* elements, of its elements of class title / film-title, its hyperlinks   *)
(* (href, text node), the text between elements (body), the texts of its   *)
(* p elements and of its blockquote and q elements.                        *)
(***************************************************************************)
SEARCH_DIRECTOR == <<"/", "p", "r", "o", "g", "r", "a", "m", "/", "s", "e", "a", "r", "c", "h", "?", "d", "i", "r", "e", "c", "t", "o", "r", "=">>
SEARCH_ORIGIN == <<"/", "p", "r", "o", "g", "r", "a", "m", "/", "s", "e", "a", "r", "c", "h", "?", "o", "r", "i", "g", "i", "n", "=">>
SEARCH_LANGUAGE == <<"/", "p", "r", "o", "g", "r", "a", "m", "/", "s", "e", "a", "r", "c", "h", "?", "l", "a", "n", "g", "u", "a", "g", "e", "=">>
SEARCH_GENRE == <<"/", "p", "r", "o", "g", "r", "a", "m", "/", "s", "e", "a", "r", "c", "h", "?", "g", "e", "n", "r", "e", "=">>
SEARCH_PREMIERE == <<"/", "p", "r", "o", "g", "r", "a", "m", "/", "s", "e", "a", "r", "c", "h", "?", "p", "r", "e", "m", "i", "e", "r", "e", "-", "s", "t", "a", "t", "u", "s", "=">>
STRAND_PATH == <<"/", "p", "r", "o", "g", "r", "a", "m", "/", "s", "t", "r", "a", "n", "d", "/">>
COMMA_SPACE == <<",", " ">>

\* value + f", {text}" if value else text
Accumulate(value, text) == IF value # EMPTY THEN value \o COMMA_SPACE \o text ELSE text

\* one pass of the loop over the page's hyperlinks
ClassifyLink(data, link) ==
    LET href == link.href
        text == Strip(link.text)
    IN  IF Contains(href, SEARCH_DIRECTOR) THEN [data EXCEPT !.director = text]
        ELSE IF Contains(href, SEARCH_ORIGIN)
            THEN [data EXCEPT !.countries = Accumulate(@, text)]
        ELSE IF Contains(href, SEARCH_LANGUAGE)
            THEN [data EXCEPT !.languages = Accumulate(@, text)]
        ELSE IF Contains(href, SEARCH_GENRE)
            THEN [data EXCEPT !.genres = Accumulate(@, text)]
        ELSE IF Contains(href, SEARCH_PREMIERE) THEN [data EXCEPT !.premiere_status = text]
        ELSE IF Contains(href, STRAND_PATH)
            THEN [data EXCEPT !.strands = Accumulate(@, text)]
        ELSE data

RECURSIVE ClassifyLinks(_, _, _)
ClassifyLinks(data, links, i) ==
    IF i > Len(links) THEN data
    ELSE ClassifyLinks(ClassifyLink(data, links[i]), links, i + 1)

\* soup.find('h1') or soup.select_one('.title, .film-title'), and its text
ExtractTitle(data, soup) ==
    LET title_elem == IF soup.h1 # <<>> THEN <<soup.h1[1]>>
                      ELSE IF soup.title_class # <<>> THEN <<soup.title_class[1]>>
                      ELSE <<>>
    IN  IF title_elem # <<>> THEN [data EXCEPT !.title = Strip(title_elem[1])] ELSE data

\* soup.get_text(): the text nodes of the document, in document order
PageText(soup) ==
    Join(soup.h1, EMPTY) \o Join(soup.title_class, EMPTY)
        \o Join([i \in DOMAIN soup.links |-> soup.links[i].text], EMPTY)
        \o soup.body \o Join(soup.paragraphs, EMPTY) \o Join(soup.quotes, EMPTY)

YEAR_DIGITS == 4

\* /\s*(\d{4})\s*/ at position i: group 1 in a one-element list, or <<>>
YearMatchAt(s, i) ==
    LET j == SkipSpace(s, i + 1)
    IN  IF /\ CharAt(s, i, {"/"})
           /\ DigitsAt(s, j, YEAR_DIGITS)
           /\ CharAt(s, SkipSpace(s, j + YEAR_DIGITS), {"/"})
        THEN <<SubSeq(s, j, j + YEAR_DIGITS - 1)>> ELSE <<>>

\* \d* from position i: the position after the run of digits
RECURSIVE DigitRunEnd(_, _)
DigitRunEnd(s, i) == IF CharAt(s, i, Digits) THEN DigitRunEnd(s, i + 1) ELSE i

\* /\s*(\d+\s*mins?)\s*/ at position i: group 1 in a one-element list, or <<>>
RuntimeMatchAt(s, i) ==
    LET j == SkipSpace(s, i + 1)
        k == SkipSpace(s, DigitRunEnd(s, j))
        e == IF CharAt(s, k + 3, {"s"}) THEN k + 4 ELSE k + 3
    IN  IF /\ CharAt(s, i, {"/"})
           /\ DigitRunEnd(s, j) > j
           /\ CharAt(s, k, {"m"}) /\ CharAt(s, k + 1, {"i"}) /\ CharAt(s, k + 2, {"n"})
           /\ CharAt(s, SkipSpace(s, e), {"/"})
        THEN <<SubSeq(s, j, e - 1)>> ELSE <<>>

VIEWER_ADVICE == <<"V", "i", "e", "w", "e", "r", " ", "A", "d", "v", "i", "c", "e", ":">>
LineBreaks == {"\n", "\r"}

\* [^\n\r]* from position i: the position after the run
RECURSIVE LineEnd(_, _)
LineEnd(s, i) ==
    IF i <= Len(s) /\ s[i] \notin LineBreaks THEN LineEnd(s, i + 1) ELSE i

\* Viewer Advice:\s*([^\n\r]+) at position i: \s* takes as much white space
\* as leaves one character other than a line break for the group
AdviceMatchAt(s, i) ==
    LET a == i + Len(VIEWER_ADVICE)
        starts == {g \in a..SkipSpace(s, a) : g <= Len(s) /\ s[g] \notin LineBreaks}
    IN  IF /\ i + Len(VIEWER_ADVICE) - 1 <= Len(s)
           /\ SubSeq(s, i, i + Len(VIEWER_ADVICE) - 1) = VIEWER_ADVICE
           /\ starts # {}
        THEN <<SubSeq(s, SetMax(starts), LineEnd(s, SetMax(starts)) - 1)>> ELSE <<>>

\* the leftmost position of s among found, as re.search scans
Leftmost(found) == IF found = {} THEN 0 ELSE SetMin(found)

\* lines 123-137: year, runtime and viewer advice from the text of the page,
\* each the group 1 of re.search(pattern, page_text)
ExtractPatterns(data, soup) ==
    LET page_text == PageText(soup)
        year_at == Leftmost({i \in 1..Len(page_text) : YearMatchAt(page_text, i) # <<>>})
        runtime_at == Leftmost({i \in 1..Len(page_text) : RuntimeMatchAt(page_text, i) # <<>>})
        advice_at == Leftmost({i \in 1..Len(page_text) : AdviceMatchAt(page_text, i) # <<>>})
    IN  [data EXCEPT
            !.year = IF year_at # 0 THEN YearMatchAt(page_text, year_at)[1] ELSE @,
            !.runtime = IF runtime_at # 0 THEN RuntimeMatchAt(page_text, runtime_at)[1] ELSE @,
            !.viewer_advice =
                IF advice_at # 0 THEN Strip(AdviceMatchAt(page_text, advice_at)[1]) ELSE @]

DESCRIPTION_MIN == 50
SKIP_WORDS ==
    {<<"v", "i", "e", "w", "e", "r", " ", "a", "d", "v", "i", "c", "e">>,
     <<"p", "r", "e", "s", "e", "n", "t", "e", "d", " ", "b", "y">>,
     <<"t", "i", "c", "k", "e", "t", "s">>,
     <<"a", "c", "c", "e", "s", "s", "i", "b", "i", "l", "i", "t", "y">>}

\* p.get_text(strip=True) of every paragraph
ParagraphTexts(soup) == [i \in DOMAIN soup.paragraphs |-> Strip(soup.paragraphs[i])]

\* the test of lines 145-147
IsDescriptionCaseSensitive(text) ==
    /\ Len(text) > DESCRIPTION_MIN
    /\ ~\E skip \in SKIP_WORDS : Contains(text, skip)
IsDescription(text) ==
    /\ Len(text) > DESCRIPTION_MIN
    /\ ~\E skip \in SKIP_WORDS : Contains(Lower(text), skip)

SPACE == <<" ">>

\* lines 139-152: description and synopsis from the paragraphs
ExtractDescriptions(data, soup) ==
    LET descriptions == SelectSeq(ParagraphTexts(soup), IsDescription)
    IN  IF descriptions # <<>>
        THEN [data EXCEPT !.description = descriptions[1],
                          !.synopsis = Join(descriptions, SPACE)]
        ELSE data

QUOTE_MIN == 20
QUOTING_PARAGRAPH_MIN == 30
MAX_QUOTES == 3
QUOTE_SEPARATOR == <<" ", "|", " ">>
\* the characters U+2013 and U+2014, each one character of a string
EN_DASH == "en dash"
EM_DASH == "em dash"

\* the test of line 158 on the text of a blockquote or q element
IsQuote(quote) == quote # EMPTY /\ Len(quote) > QUOTE_MIN

\* the test of line 164 on the text of a paragraph
IsQuotingParagraph(text) ==
    /\ \E k \in DOMAIN text : text[k] = "\""
    /\ \E k \in DOMAIN text : text[k] \in {EN_DASH, EM_DASH}
    /\ Len(text) > QUOTING_PARAGRAPH_MIN

\* lines 155-165: the quotes list, blockquote and q elements first
QuotesOf(soup) ==
    SelectSeq([i \in DOMAIN soup.quotes |-> Strip(soup.quotes[i])], IsQuote)
        \o SelectSeq(ParagraphTexts(soup), IsQuotingParagraph)

\* ' | '.join(quotes[:3])
ReviewQuotesUntruncated(quotes) == Join(quotes, QUOTE_SEPARATOR)
ReviewQuotes(quotes) == Join(Prefix(quotes, MAX_QUOTES), QUOTE_SEPARATOR)

\* lines 154-167: review_quotes
ExtractQuotes(data, soup) == [data EXCEPT !.review_quotes = ReviewQuotes(QuotesOf(soup))]

\* the function: None when the fetch fails, else the Film dict
ScrapeFilmDetailsNeedingTitle(film_url, soup) ==
    IF soup.status # "ok" \/ (soup.h1 = <<>> /\ soup.title_class = <<>>) THEN None
    ELSE FilmRecord(film_url)
ScrapeFilmDetails(film_url, soup) ==
    IF soup.status # "ok" THEN None
    ELSE ExtractQuotes(
            ExtractDescriptions(
                ExtractPatterns(
                    ClassifyLinks(ExtractTitle(FilmRecord(film_url), soup), soup.links, 1),
                    soup),
                soup),
            soup)

scrape_film_details ==
    /\ pc = "idle"
    /\ film_data' = ScrapeFilmDetails(film_page.url, film_page)
    /\ pc' = "film"
    /\ UNCHANGED <<film_page, dataVars, discoveryVars, scheduleVars, runVars, consumerVars>>

(***************************************************************************)
(* scrape_schedule_for_date.  The parsed page is its nodes in document     *)
(* order, each with its depth below the document object (node 0, depth 0): *)
(* a tag, a hyperlink (kind "a", with its href) or a text node.  The       *)
(* parent of a node is the nearest earlier node one level up.              *)
(***************************************************************************)
ANCESTOR_LEVELS == 4
CONTEXT_CHARS == 200

DOCUMENT == 0
NO_PARENT == -1

DepthOf(nodes, i) == IF i = DOCUMENT THEN 0 ELSE nodes[i].depth

\* element.parent; the document object has none
ParentOf(nodes, i) ==
    IF i = DOCUMENT THEN NO_PARENT
    ELSE IF nodes[i].depth = 1 THEN DOCUMENT
    ELSE SetMax({j \in 1..(i - 1) : nodes[j].depth = nodes[i].depth - 1})

\* the last node of the subtree of node i
SubtreeEnd(nodes, i) ==
    LET later == {j \in (i + 1)..Len(nodes) : nodes[j].depth <= DepthOf(nodes, i)}
    IN  IF later = {} THEN Len(nodes) ELSE SetMin(later) - 1

\* the stripped, non-empty strings of the nodes lo..hi, concatenated
RECURSIVE JoinStrings(_, _, _)
JoinStrings(nodes, lo, hi) ==
    IF lo > hi THEN EMPTY
    ELSE (IF nodes[lo].kind = "text" THEN Strip(nodes[lo].text) ELSE EMPTY)
            \o JoinStrings(nodes, lo + 1, hi)

\* element.get_text(strip=True)
GetText(nodes, i) == JoinStrings(nodes, i + 1, SubtreeEnd(nodes, i))

\* element.find_all('a', href=True), in document order
LinksIn(nodes, i) ==
    SelectSeq([k \in 1..(SubtreeEnd(nodes, i) - i) |-> i + k],
              LAMBDA j : nodes[j].kind = "a")

\* the while loop that walks up to four ancestors of a link
RECURSIVE ContextText(_, _, _, _)
ContextText(nodes, parent, levels, context_text) ==
    IF parent = NO_PARENT \/ levels >= ANCESTOR_LEVELS THEN context_text
    ELSE ContextText(nodes, ParentOf(nodes, parent), levels + 1,
                     GetText(nodes, parent) \o <<" ">> \o context_text)

\* \s*[ap]m from position i: the position after the match, 0 when there is none
AmPmEnd(s, i) ==
    LET j == SkipSpace(s, i)
    IN  IF CharAt(s, j, {"a", "p"}) /\ CharAt(s, j + 1, {"m"}) THEN j + 2 ELSE 0

\* \d{n}:\d{2}\s*[ap]m at position i
ClockEnd(s, i, n) ==
    IF DigitsAt(s, i, n) /\ CharAt(s, i + n, {":"}) /\ DigitsAt(s, i + n + 1, 2)
    THEN AmPmEnd(s, i + n + 3) ELSE 0

\* \d{n}\s*[ap]m at position i
HourEnd(s, i, n) == IF DigitsAt(s, i, n) THEN AmPmEnd(s, i + n) ELSE 0

\* \d{1,2}:\d{2}\s*[ap]m|\d{1,2}\s*[ap]m at position i: the alternatives in
\* order, two digits tried before one
TimeMatchEnd(s, i) ==
    IF ClockEnd(s, i, 2) # 0 THEN ClockEnd(s, i, 2)
    ELSE IF ClockEnd(s, i, 1) # 0 THEN ClockEnd(s, i, 1)
    ELSE IF HourEnd(s, i, 2) # 0 THEN HourEnd(s, i, 2)
    ELSE HourEnd(s, i, 1)

\* re.findall(...) of the time pattern, cut to its first match: the scan
\* from position i
RECURSIVE TimeMatchesFrom(_, _)
TimeMatchesFrom(s, i) ==
    IF i > Len(s) THEN <<>>
    ELSE IF TimeMatchEnd(s, i) # 0 THEN <<SubSeq(s, i, TimeMatchEnd(s, i) - 1)>>
    ELSE TimeMatchesFrom(s, i + 1)

TimeMatches(s) == TimeMatchesFrom(s, 1)

\* the venue alternatives: a name, and whether [^|,\n]* follows it
VENUE_ACMI == [name |-> <<"A", "C", "M", "I">>, open |-> FALSE]
VENUE_HOYTS == [name |-> <<"H", "o", "y", "t", "s">>, open |-> TRUE]
VENUE_CAPITOL == [name |-> <<"C", "a", "p", "i", "t", "o", "l">>, open |-> TRUE]
VENUE_FORUM == [name |-> <<"F", "o", "r", "u", "m">>, open |-> TRUE]
VENUE_ARTS_CENTRE == [name |-> <<"A", "r", "t", "s", " ", "C", "e", "n", "t", "r", "e">>, open |-> TRUE]

GRID_VENUES == <<VENUE_ACMI, VENUE_HOYTS, VENUE_CAPITOL, VENUE_FORUM, VENUE_ARTS_CENTRE>>
TIME_SLOT_VENUES == <<VENUE_ACMI, VENUE_HOYTS, VENUE_CAPITOL, VENUE_FORUM>>

\* [^|,\n]* from position i: the position after the run
RECURSIVE VenueRunEnd(_, _)
VenueRunEnd(s, i) ==
    IF i <= Len(s) /\ s[i] \notin {"|", ",", "\n"} THEN VenueRunEnd(s, i + 1) ELSE i

\* one alternative at position i, case-insensitively: the position after it, or 0
VenueAltEnd(s, i, venue) ==
    LET n == Len(venue.name)
    IN  IF i + n - 1 <= Len(s) /\ Lower(SubSeq(s, i, i + n - 1)) = Lower(venue.name)
        THEN (IF venue.open THEN VenueRunEnd(s, i + n) ELSE i + n)
        ELSE 0

\* the alternation at position i, alternatives in order
RECURSIVE VenueMatchEnd(_, _, _, _)
VenueMatchEnd(s, i, venues, k) ==
    IF k > Len(venues) THEN 0
    ELSE IF VenueAltEnd(s, i, venues[k]) # 0 THEN VenueAltEnd(s, i, venues[k])
    ELSE VenueMatchEnd(s, i, venues, k + 1)

\* re.findall(...) of a venue pattern, cut to its first match: the scan from
\* position i
RECURSIVE VenueMatchesFrom(_, _, _)
VenueMatchesFrom(s, i, venues) ==
    IF i > Len(s) THEN <<>>
    ELSE IF VenueMatchEnd(s, i, venues, 1) # 0
        THEN <<SubSeq(s, i, VenueMatchEnd(s, i, venues, 1) - 1)>>
    ELSE VenueMatchesFrom(s, i + 1, venues)

VenueMatches(s, venues) == VenueMatchesFrom(s, 1, venues)

\* Method 1: the record of one film link
GridSessionWholeContext(nodes, date_str, link) ==
    LET film_title == GetText(nodes, link)
        film_url == UrlJoin(base_url, BeforeHash(nodes[link].href))
        context_text == ContextText(nodes, ParentOf(nodes, link), 0, EMPTY)
        time_matches == TimeMatches(context_text)
        venue_matches == VenueMatches(context_text, GRID_VENUES)
    IN  SessionRecord(date_str, film_title, film_url,
            IF venue_matches # <<>> THEN Strip(venue_matches[1]) ELSE UNKNOWN,
            IF time_matches # <<>> THEN time_matches[1] ELSE UNKNOWN,
            context_text)
GridSession(nodes, date_str, link) ==
    LET film_title == GetText(nodes, link)
        film_url == UrlJoin(base_url, BeforeHash(nodes[link].href))
        context_text == ContextText(nodes, ParentOf(nodes, link), 0, EMPTY)
        time_matches == TimeMatches(context_text)
        venue_matches == VenueMatches(context_text, GRID_VENUES)
    IN  SessionRecord(date_str, film_title, film_url,
            IF venue_matches # <<>> THEN Strip(venue_matches[1]) ELSE UNKNOWN,
            IF time_matches # <<>> THEN time_matches[1] ELSE UNKNOWN,
            Prefix(context_text, CONTEXT_CHARS))

\* Method 1: one record per film link, in document order
RECURSIVE GridSweepDroppingUntimed(_, _, _)
GridSweepDroppingUntimed(nodes, date_str, i) ==
    IF i > Len(nodes) THEN <<>>
    ELSE (IF /\ nodes[i].kind = "a"
             /\ Contains(nodes[i].href, FILM_PATH)
             /\ GridSession(nodes, date_str, i).time # UNKNOWN
          THEN <<GridSession(nodes, date_str, i)>> ELSE <<>>)
            \o GridSweepDroppingUntimed(nodes, date_str, i + 1)
RECURSIVE GridSweep(_, _, _)
GridSweep(nodes, date_str, i) ==
    IF i > Len(nodes) THEN <<>>
    ELSE (IF nodes[i].kind = "a" /\ Contains(nodes[i].href, FILM_PATH)
          THEN <<GridSession(nodes, date_str, i)>> ELSE <<>>)
            \o GridSweep(nodes, date_str, i + 1)

\* re.compile(r'\d{1,2}[ap]m').search(text): one or two digits, then am or pm
HasSlotToken(text) ==
    \E i \in 1..Len(text) :
        \/ CharAt(text, i, Digits) /\ CharAt(text, i + 1, {"a", "p"}) /\ CharAt(text, i + 2, {"m"})
        \/ DigitsAt(text, i, 2) /\ CharAt(text, i + 2, {"a", "p"}) /\ CharAt(text, i + 3, {"m"})

\* re.match(r'\d{1,2}[ap]m$', time_clean) on a stripped string
IsSlotToken(time_clean) ==
    \/ /\ Len(time_clean) = 3
       /\ DigitsAt(time_clean, 1, 1)
       /\ CharAt(time_clean, 2, {"a", "p"}) /\ CharAt(time_clean, 3, {"m"})
    \/ /\ Len(time_clean) = 4
       /\ DigitsAt(time_clean, 1, 2)
       /\ CharAt(time_clean, 3, {"a", "p"}) /\ CharAt(time_clean, 4, {"m"})

\* Method 2: the records of the film links under the parent of one time text
RECURSIVE SlotSessions(_, _, _, _, _, _)
SlotSessions(nodes, date_str, time_parent, time_clean, nearby_links, k) ==
    IF k > Len(nearby_links) THEN <<>>
    ELSE LET link == nearby_links[k]
             film_title == GetText(nodes, link)
             film_url == UrlJoin(base_url, BeforeHash(nodes[link].href))
             container_text == GetText(nodes, time_parent)
             venue_matches == VenueMatches(container_text, TIME_SLOT_VENUES)
         IN  (IF Contains(nodes[link].href, FILM_PATH)
              THEN <<TimeSlotRecord(date_str, film_title, film_url,
                        IF venue_matches # <<>> THEN Strip(venue_matches[1]) ELSE UNKNOWN,
                        time_clean)>>
              ELSE <<>>)
                \o SlotSessions(nodes, date_str, time_parent, time_clean, nearby_links, k + 1)

\* Method 2: the loop over the text nodes that hold a time token
RECURSIVE TimeSlotSweep(_, _, _)
TimeSlotSweep(nodes, date_str, i) ==
    IF i > Len(nodes) THEN <<>>
    ELSE (IF /\ nodes[i].kind = "text"
             /\ HasSlotToken(nodes[i].text)
             /\ IsSlotToken(Strip(nodes[i].text))
          THEN LET time_parent == ParentOf(nodes, i)
               IN  SlotSessions(nodes, date_str, time_parent, Strip(nodes[i].text),
                                LinksIn(nodes, time_parent), 1)
          ELSE <<>>)
            \o TimeSlotSweep(nodes, date_str, i + 1)

\* the function: the records of both sweeps; [] when the fetch fails (status
\* "error"); when an exception stops the extraction (status "broken"), the
\* records appended to sessions until then, which the handler returns
ScrapeScheduleForDateLosingCollected(date_str, response) ==
    IF response.status # "ok" THEN <<>>
    ELSE GridSweep(response.nodes, date_str, 1) \o TimeSlotSweep(response.nodes, date_str, 1)
ScrapeScheduleForDate(date_str, response) ==
    IF response.status = "error" THEN <<>>
    ELSE IF response.status = "broken"
        THEN Prefix(GridSweep(response.nodes, date_str, 1)
                        \o TimeSlotSweep(response.nodes, date_str, 1), response.collected)
    ELSE GridSweep(response.nodes, date_str, 1) \o TimeSlotSweep(response.nodes, date_str, 1)

scrape_schedule_for_date ==
    /\ pc = "idle"
    /\ schedule_sessions' = ScrapeScheduleForDate(schedule_page.day, schedule_page)
    /\ pc' = "schedule"
    /\ UNCHANGED <<schedule_page, dataVars, filmVars, discoveryVars, runVars, consumerVars>>

(***************************************************************************)
(* scrape_all_sessions: the de-duplication of the collected sessions.      *)
(***************************************************************************)
\* the key scrape_all_sessions de-duplicates on
SessionKeyWithoutTime(session) == <<session.date, session.film_id, session.venue>>
SessionKey(session) == <<session.date, session.film_id, session.venue, session.time>>

\* the loop over all_sessions with its seen set
RECURSIVE UniqueKeepLast(_, _, _, _)
UniqueKeepLast(sessions, i, seen, unique) ==
    IF i > Len(sessions) THEN unique
    ELSE LET session == sessions[i]
             key == SessionKey(session)
         IN  UniqueKeepLast(sessions, i + 1, seen \cup {key},
                 Append(SelectSeq(unique, LAMBDA u : SessionKey(u) # key), session))
RECURSIVE UniqueFrom(_, _, _, _)
UniqueFrom(sessions, i, seen, unique) ==
    IF i > Len(sessions) THEN unique
    ELSE LET session == sessions[i]
             key == SessionKey(session)
         IN  IF key \notin seen
             THEN UniqueFrom(sessions, i + 1, seen \cup {key}, Append(unique, session))
             ELSE UniqueFrom(sessions, i + 1, seen, unique)

\* the list as it is, nothing dropped
KeepAllSessions(sessions) == sessions
\* lines 311-319: the de-duplicated list
unique_sessions(sessions) == UniqueFrom(sessions, 1, {}, <<>>)

(***************************************************************************)
(* combine_films_and_sessions.  Sessions are held by reference: a group is *)
(* a list of indices into sessions_data.                                   *)
(***************************************************************************)
\* if key not in d: d[key] = []; d[key].append(v)
DictAppendOverwrites(d, k, v) == [x \in DOMAIN d \cup {k} |-> IF x = k THEN <<v>> ELSE d[x]]
DictAppend(d, k, v) ==
    [x \in DOMAIN d \cup {k} |->
        IF x = k THEN (IF k \in DOMAIN d THEN Append(d[k], v) ELSE <<v>>) ELSE d[x]]

\* the loop that fills sessions_by_film_id and sessions_by_film_title
RECURSIVE GroupSessions(_, _, _)
GroupSessions(sessions, i, acc) ==
    IF i > Len(sessions) THEN acc
    ELSE LET session == sessions[i]
             film_id == session.film_id
             film_title == Lower(session.film_title)
         IN  GroupSessions(sessions, i + 1,
                 [by_id |-> DictAppend(acc.by_id, film_id, i),
                  by_title |-> DictAppend(acc.by_title, film_title, i)])

EmptyGroups == [by_id |-> <<>>, by_title |-> <<>>]

\* the sessions of one film: by id, else (no id match, a title) by lower-cased title
FilmSessionsIdPlusTitle(film, groups) ==
    LET by_id == DictGet(groups.by_id, film.film_id, <<>>)
        by_title == DictGet(groups.by_title, Lower(film.title), <<>>)
    IN  by_id \o SelectSeq(by_title, LAMBDA s : \A j \in DOMAIN by_id : by_id[j] # s)
FilmSessionsAnyTitle(film, groups) ==
    LET film_sessions == DictGet(groups.by_id, film.film_id, <<>>)
    IN  IF film_sessions = <<>>
        THEN DictGet(groups.by_title, Lower(film.title), <<>>)
        ELSE film_sessions
\* a film without an id match takes the first group there is, whatever its key
FilmSessionsElseAnyGroup(film, groups) ==
    LET film_sessions == DictGet(groups.by_id, film.film_id, <<>>)
    IN  IF film_sessions = <<>> /\ DOMAIN groups.by_id # {}
        THEN groups.by_id[CHOOSE k \in DOMAIN groups.by_id : TRUE]
        ELSE film_sessions
FilmSessions(film, groups) ==
    LET film_id == film.film_id
        film_title == Lower(film.title)
        film_sessions == DictGet(groups.by_id, film_id, <<>>)
    IN  IF film_sessions = <<>> /\ film_title # EMPTY
        THEN DictGet(groups.by_title, film_title, <<>>)
        ELSE film_sessions

\* film.copy() updated with the four session fields
CombinedRowContextIfAny(film, session) ==
    DictUpdate(film,
        IF "context" \in DOMAIN session
        THEN [session_date |-> session.date,
              session_venue |-> session.venue,
              session_time |-> session.time,
              session_context |-> session.context]
        ELSE [session_date |-> session.date,
              session_venue |-> session.venue,
              session_time |-> session.time])
CombinedRow(film, session) ==
    DictUpdate(film,
        [session_date |-> session.date,
         session_venue |-> session.venue,
         session_time |-> session.time,
         session_context |-> DictGet(session, "context", EMPTY)])

\* the row of a film with no sessions found
PlaceholderRow(film) ==
    DictUpdate(film,
        [session_date |-> EMPTY,
         session_venue |-> EMPTY,
         session_time |-> EMPTY,
         session_context |-> NO_SESSIONS_FOUND])

\* the rows one film contributes, each with the (film, session) it came from;
\* session 0 is the sessionless placeholder
RowsForFilmNoPlaceholder(films, sessions, groups, f) ==
    LET film_sessions == FilmSessions(films[f], groups)
    IN  [j \in 1..Len(film_sessions) |->
            [row |-> CombinedRow(films[f], sessions[film_sessions[j]]),
             film |-> f, session |-> film_sessions[j]]]
RowsForFilm(films, sessions, groups, f) ==
    LET film == films[f]
        film_sessions == FilmSessions(film, groups)
    IN  IF film_sessions # <<>>
        THEN [j \in 1..Len(film_sessions) |->
                [row |-> CombinedRow(film, sessions[film_sessions[j]]),
                 film |-> f, session |-> film_sessions[j]]]
        ELSE <<[row |-> PlaceholderRow(film), film |-> f, session |-> 0]>>

\* the loop over films_data
RECURSIVE CombineFrom(_, _, _, _)
CombineFrom(films, sessions, groups, f) ==
    IF f > Len(films) THEN <<>>
    ELSE RowsForFilm(films, sessions, groups, f) \o CombineFrom(films, sessions, groups, f + 1)

Combined(films, sessions) ==
    CombineFrom(films, sessions, GroupSessions(sessions, 1, EmptyGroups), 1)

\* self.films_data after the loop.  A row is built on film.copy(), a new
\* dict, so the update of the row leaves the film dict as it was; were the
\* row the film dict itself, the film would end as its last row.
FilmsAfterCombineOnFilmItself(films, sessions) ==
    [f \in DOMAIN films |->
        LET rows == SelectSeq(Combined(films, sessions), LAMBDA r : r.film = f)
        IN  rows[Len(rows)].row]
FilmsAfterCombine(films, sessions) == films

combine_films_and_sessions ==
    /\ pc \in {"loaded", "combined"}
    /\ LET combined == Combined(films_data, sessions_data)
       IN  /\ combined_data' = [j \in 1..Len(combined) |-> combined[j].row]
           /\ combined_src' = [j \in 1..Len(combined) |->
                                  [film |-> combined[j].film, session |-> combined[j].session]]
    /\ films_data' = FilmsAfterCombine(films_data, sessions_data)
    /\ pc' = "combined"
    /\ UNCHANGED <<sessions_data, all_sessions, filmVars, discoveryVars, scheduleVars, runVars, consumerVars>>

(***************************************************************************)
(* The join on its own: the film list and the de-duplicated session list   *)
(* are drawn from bounded sets, then combine_films_and_sessions runs.      *)
(***************************************************************************)
UrlX == base_url \o FILM_PATH \o <<"x">>
UrlY == base_url \o FILM_PATH \o <<"y">>
UrlAltX == base_url \o <<"/", "a", "r", "c", "h", "i", "v", "e">> \o FILM_PATH \o <<"x">>
Date1 == <<"2", "0", "2", "5", "-", "0", "8", "-", "0", "7">>
Date2 == <<"2", "0", "2", "5", "-", "0", "8", "-", "0", "8">>
ACMI == <<"A", "C", "M", "I">>
T700pm == <<"7", ":", "0", "0", "p", "m">>
T6pm == <<"6", "p", "m">>
TitleEchoes == <<"E", "c", "h", "o", "e", "s">>
TitleEchoesUpper == <<"E", "C", "H", "O", "E", "S">>
SomeContext == <<"7", ":", "0", "0", "p", "m", " ", "A", "C", "M", "I", " ">>

JoinFilms ==
    {[FilmRecord(u) EXCEPT !.title = t] :
        u \in {UrlX, UrlY, UrlAltX}, t \in {EMPTY, TitleEchoes}}

JoinSessions ==
    {SessionRecord(Date1, t, u, ACMI, T700pm, SomeContext) :
        t \in {EMPTY, TitleEchoesUpper}, u \in {UrlX, UrlY}}
    \cup
    {TimeSlotRecord(Date1, t, u, UNKNOWN, T6pm) :
        t \in {EMPTY, TitleEchoesUpper}, u \in {UrlX, UrlY}}

SeqsUpTo(S, n) == UNION {[1..k -> S] : k \in 0..n}

\* what one scrape_all_films leaves: one Film per discovered URL
DistinctUrls(films) ==
    \A i, j \in DOMAIN films : films[i].film_url = films[j].film_url => i = j

\* what scrape_all_sessions leaves: one session per key
DistinctKeys(sessions) ==
    \A i, j \in DOMAIN sessions : SessionKey(sessions[i]) = SessionKey(sessions[j]) => i = j

InitJoin ==
    /\ pc = "loaded"
    /\ films_data \in {fs \in SeqsUpTo(JoinFilms, MaxFilms) : DistinctUrls(fs)}
    /\ sessions_data \in {ss \in SeqsUpTo(JoinSessions, MaxSessions) : DistinctKeys(ss)}
    /\ combined_data = <<>>
    /\ combined_src = <<>>
    /\ all_sessions = <<>>
    /\ NoFilmPage
    /\ NoDiscovery
    /\ NoSchedule
    /\ NoRun

NextJoin == combine_films_and_sessions

SpecJoin == InitJoin /\ [][NextJoin]_vars

(***************************************************************************)
(* The Reconciler's matching policy, stated on the two lists themselves.   *)
(***************************************************************************)
IdMatch(f, s) == sessions_data[s].film_id = films_data[f].film_id

TitleMatch(f, s) == Lower(sessions_data[s].film_title) = Lower(films_data[f].title)

IdMatches(f) == {s \in DOMAIN sessions_data : IdMatch(f, s)}

TitleMatches(f) == {s \in DOMAIN sessions_data : TitleMatch(f, s)}

\* (1) the sessions with the film's id; (2) if there are none and the film has a
\* title, the sessions with its title, case-insensitively
PolicyMatches(f) ==
    IF IdMatches(f) # {} THEN IdMatches(f)
    ELSE IF films_data[f].title # EMPTY THEN TitleMatches(f)
    ELSE {}

RowsOf(f) == {j \in DOMAIN combined_src : combined_src[j].film = f}

SessionsOf(f) == {combined_src[j].session : j \in RowsOf(f)}

FilmFieldsEqual(row, film) == \A k \in FilmKeys : row[k] = film[k]

IsPlaceholder(row) ==
    /\ row.session_date = EMPTY
    /\ row.session_time = EMPTY
    /\ row.session_venue = EMPTY
    /\ row.session_context = NO_SESSIONS_FOUND

CarriesSession(row, session) ==
    /\ row.session_date = session.date
    /\ row.session_time = session.time
    /\ row.session_venue = session.venue
    /\ row.session_context = (IF "context" \in DOMAIN session THEN session.context ELSE EMPTY)

RowCount(f) == IF PolicyMatches(f) = {} THEN 1 ELSE Cardinality(PolicyMatches(f))

RECURSIVE SumRowCounts(_)
SumRowCounts(n) == IF n = 0 THEN 0 ELSE RowCount(n) + SumRowCounts(n - 1)

\* C1 (join completeness): after combine_films_and_sessions every Film of
\* films_data has at least one combined record carrying its film fields, and
\* when no session matched the Film the records carrying its fields have empty
\* session_date, session_time and session_venue and the context
\* 'No sessions found'.
C1_JoinCompleteness ==
    pc = "combined" =>
        \A f \in DOMAIN films_data :
            /\ \E j \in DOMAIN combined_data :
                    FilmFieldsEqual(combined_data[j], films_data[f])
            /\ PolicyMatches(f) = {} =>
                    \A j \in DOMAIN combined_data :
                        FilmFieldsEqual(combined_data[j], films_data[f])
                            => IsPlaceholder(combined_data[j])

\* a join in which one film has a matching session and another has none
C1_Witness ==
    /\ pc = "combined"
    /\ \E f, g \in DOMAIN films_data : PolicyMatches(f) = {} /\ PolicyMatches(g) # {}

\* C2 (no cross-contamination): no session is the source of combined rows under
\* two distinct Films.
C2_NoCrossContamination ==
    pc = "combined" =>
        \A a, b \in DOMAIN combined_src :
            (combined_src[a].session # 0 /\ combined_src[a].session = combined_src[b].session)
                => combined_src[a].film = combined_src[b].film

\* the case of C3: film f has exactly one session s1 with its id, and another
\* session s2 without its id carries its (non-empty) title case-insensitively
C3_Case(f, s1, s2) ==
    /\ IdMatches(f) = {s1}
    /\ s2 # s1
    /\ ~IdMatch(f, s2)
    /\ films_data[f].title # EMPTY
    /\ TitleMatch(f, s2)

\* C3 as stated (title fallback adds to id matches): in that case the second
\* session is matched too and the film gets two combined records.
C3_TitleFallbackAdds ==
    pc = "combined" =>
        \A f \in DOMAIN films_data : \A s1, s2 \in DOMAIN sessions_data :
            C3_Case(f, s1, s2) =>
                /\ s2 \in SessionsOf(f)
                /\ Cardinality(RowsOf(f)) = 2

\* C3 as amended: in that case the title fallback is not used; the film gets
\* exactly one combined record, for the id-matched session, and the second
\* session is not matched to it.
C3_TitleFallbackOnlyWithoutIdMatch ==
    pc = "combined" =>
        \A f \in DOMAIN films_data : \A s1, s2 \in DOMAIN sessions_data :
            C3_Case(f, s1, s2) =>
                /\ SessionsOf(f) = {s1}
                /\ Cardinality(RowsOf(f)) = 1
                /\ \A j \in RowsOf(f) : CarriesSession(combined_data[j], sessions_data[s1])

C3_Witness ==
    /\ pc = "combined"
    /\ \E f \in DOMAIN films_data : \E s1, s2 \in DOMAIN sessions_data : C3_Case(f, s1, s2)

\* C4 (matching policy order): a film's rows come from the sessions with its
\* film_id when there are any; from the sessions with its lower-cased title only
\* when no session has its id and its title is non-empty; a film with no id
\* match and an empty title (or no title match) gets the sessionless placeholder.
C4_MatchingPolicyOrder ==
    pc = "combined" =>
        \A f \in DOMAIN films_data :
            /\ IdMatches(f) # {} => SessionsOf(f) = IdMatches(f)
            /\ (IdMatches(f) = {} /\ films_data[f].title # EMPTY /\ TitleMatches(f) # {})
                    => SessionsOf(f) = TitleMatches(f)
            /\ (IdMatches(f) = {} /\ (films_data[f].title = EMPTY \/ TitleMatches(f) = {}))
                    => /\ SessionsOf(f) = {0}
                       /\ \A j \in RowsOf(f) : IsPlaceholder(combined_data[j])

\* a film with an empty title and no id match, beside a session with an empty title
C4_Witness ==
    /\ pc = "combined"
    /\ \E f \in DOMAIN films_data :
            /\ films_data[f].title = EMPTY
            /\ IdMatches(f) = {}
            /\ TitleMatches(f) # {}

\* C5 (row counts): a Film with k >= 1 matching sessions has exactly k rows, one
\* per matching session and none repeated, each with the Film's fields and that
\* session's fields; a Film with no matching session has exactly one sessionless
\* row; len(combined_data) is the sum over films of max(1, k).
C5_RowCounts ==
    pc = "combined" =>
        /\ Len(combined_data) = Len(combined_src)
        /\ Len(combined_data) = SumRowCounts(Len(films_data))
        /\ \A f \in DOMAIN films_data :
            /\ Cardinality(RowsOf(f)) = RowCount(f)
            /\ \A j \in RowsOf(f) : FilmFieldsEqual(combined_data[j], films_data[f])
            /\ PolicyMatches(f) # {} =>
                /\ SessionsOf(f) = PolicyMatches(f)
                /\ \A j \in RowsOf(f) :
                        CarriesSession(combined_data[j], sessions_data[combined_src[j].session])
            /\ PolicyMatches(f) = {} =>
                \A j \in RowsOf(f) :
                    combined_src[j].session = 0 /\ IsPlaceholder(combined_data[j])

\* a join with a film of two matching sessions and a film of none
C5_Witness ==
    /\ pc = "combined"
    /\ \E f, g \in DOMAIN films_data :
            Cardinality(PolicyMatches(f)) = 2 /\ PolicyMatches(g) = {}

(***************************************************************************)
(* scrape_all_sessions on its own: the sessions the schedule pages gave,   *)
(* date by date, are drawn from a bounded set.                             *)
(***************************************************************************)
OtherContext == <<"E", "c", "h", "o", "e", "s", " ", "7", ":", "0", "0", "p", "m", " ">>

BaseSession == SessionRecord(Date1, TitleEchoes, UrlX, ACMI, T700pm, SomeContext)

\* the base record and records that differ from it in one field, and a sweep-2
\* record with the key of a sweep-1 record
ScrapedSessions ==
    {BaseSession,
     [BaseSession EXCEPT !.context = OtherContext],
     [BaseSession EXCEPT !.date = Date2],
     SessionRecord(Date1, TitleEchoes, UrlY, ACMI, T700pm, SomeContext),
     [BaseSession EXCEPT !.venue = UNKNOWN],
     [BaseSession EXCEPT !.time = T6pm],
     TimeSlotRecord(Date1, TitleEchoes, UrlX, ACMI, T6pm)}

\* the dates are scraped in order: no session of the first date follows one of the second
InDateOrder(sessions) ==
    \A i, j \in DOMAIN sessions :
        (sessions[i].date = Date2 /\ sessions[j].date = Date1) => j < i

scrape_all_sessions ==
    /\ pc = "idle"
    /\ \E scraped \in {ss \in SeqsUpTo(ScrapedSessions, MaxAllSessions) : InDateOrder(ss)} :
            /\ all_sessions' = scraped
            /\ sessions_data' = unique_sessions(scraped)
    /\ pc' = "sessions"
    /\ UNCHANGED <<films_data, combined_data, combined_src, filmVars, discoveryVars, scheduleVars, runVars, consumerVars>>

InitSessions ==
    /\ pc = "idle"
    /\ films_data = <<>>
    /\ sessions_data = <<>>
    /\ combined_data = <<>>
    /\ combined_src = <<>>
    /\ all_sessions = <<>>
    /\ NoFilmPage
    /\ NoDiscovery
    /\ NoSchedule
    /\ NoRun

NextSessions == scrape_all_sessions

SpecSessions == InitSessions /\ [][NextSessions]_vars

\* the composite key, read off a record
KeyOf(session) == <<session.date, session.film_id, session.venue, session.time>>

\* the positions of all_sessions that hold the first record of their key
FirstOfKey == {i \in DOMAIN all_sessions :
                  \A j \in 1..(i - 1) : KeyOf(all_sessions[j]) # KeyOf(all_sessions[i])}

\* the records of all_sessions at the positions P, in their order
RECURSIVE Picked(_, _)
Picked(P, n) ==
    IF n = 0 THEN <<>>
    ELSE IF n \in P THEN Append(Picked(P, n - 1), all_sessions[n])
    ELSE Picked(P, n - 1)

\* C6 (dedup correctness): sessions_data has no two elements with the same
\* (date, film_id, venue, time) key, and every key of the collected list occurs
\* in it.
C6_DedupCorrectness ==
    pc = "sessions" =>
        /\ \A i, j \in DOMAIN sessions_data :
                KeyOf(sessions_data[i]) = KeyOf(sessions_data[j]) => i = j
        /\ \A i \in DOMAIN all_sessions : \E j \in DOMAIN sessions_data :
                KeyOf(sessions_data[j]) = KeyOf(all_sessions[i])

\* a collected list with a repeated key and two distinct keys
C6_Witness ==
    /\ pc = "sessions"
    /\ Len(sessions_data) = 2
    /\ Len(all_sessions) = 3

\* C7 (first-seen records, discovery order): sessions_data is the subsequence
\* of the collected list made of the first record of each key, so two records
\* identical except for their context collapse to the first-seen one.
C7_DedupKeepsFirstSeen ==
    pc = "sessions" => sessions_data = Picked(FirstOfKey, Len(all_sessions))

\* two records identical except for their context, collapsed to the first
C7_Witness ==
    /\ pc = "sessions"
    /\ all_sessions = <<[BaseSession EXCEPT !.context = OtherContext], BaseSession>>
    /\ sessions_data = <<[BaseSession EXCEPT !.context = OtherContext]>>

(***************************************************************************)
(* scrape_film_details on its own: the page is drawn from a bounded set.   *)
(***************************************************************************)
Link(href, text) == [href |-> href, text |-> text]

PageLinks ==
    {Link(SEARCH_DIRECTOR \o <<"J", "a", "n", "e", "+", "D", "o", "e">>,
          <<"J", "a", "n", "e", " ", "D", "o", "e">>),
     Link(SEARCH_DIRECTOR \o <<"A", "n", "n", "+", "L", "e", "e">>,
          <<"A", "n", "n", " ", "L", "e", "e">>),
     Link(SEARCH_GENRE \o <<"D", "r", "a", "m", "a">>, <<"D", "r", "a", "m", "a">>),
     Link(SEARCH_GENRE \o <<"T", "h", "r", "i", "l", "l", "e", "r">>,
          <<" ", "T", "h", "r", "i", "l", "l", "e", "r", "\n">>),
     Link(SEARCH_ORIGIN \o <<"A", "U">>, <<"A", "u", "s", "t", "r", "a", "l", "i", "a">>),
     Link(SEARCH_LANGUAGE \o <<"e", "n">>, <<"E", "n", "g", "l", "i", "s", "h">>),
     Link(SEARCH_ORIGIN \o <<"F", "R">>, <<"F", "r", "a", "n", "c", "e">>),
     Link(SEARCH_PREMIERE \o <<"w", "p">>,
          <<"W", "o", "r", "l", "d", " ", "P", "r", "e", "m", "i", "e", "r", "e">>),
     Link(SEARCH_PREMIERE \o <<"a", "p">>,
          <<"A", "u", "s", "t", "r", "a", "l", "i", "a", "n", " ", "P", "r", "e", "m", "i", "e", "r", "e">>),
     Link(STRAND_PATH \o <<"h", "e", "a", "d", "l", "i", "n", "e", "r", "s">>,
          <<"H", "e", "a", "d", "l", "i", "n", "e", "r", "s">>),
     Link(SEARCH_GENRE \o <<"N", "o", "i", "r">>, EMPTY),
     Link(<<"/", "a", "b", "o", "u", "t">>, <<"A", "b", "o", "u", "t">>)}

PageHeadings ==
    {[h1 |-> <<>>, title_class |-> <<>>],
     [h1 |-> <<<<" ", "E", "c", "h", "o", "e", "s", " ">>>>, title_class |-> <<TitleEchoesUpper>>],
     [h1 |-> <<>>, title_class |-> <<TitleEchoesUpper>>]}

\* the text between the elements of a page
BODY_PLAIN ==
    <<"S", "c", "r", "e", "e", "n", "i", "n", "g", " ", "w", "i", "t", "h",
        " ", "a", " ", "s", "h", "o", "r", "t", " ", "f", "i", "l", "m", " ",
        "i", "n", " ", "2", "0", "2", "5">>
BODY_YEAR_RUNTIME ==
    <<"A", "u", "s", "t", "r", "a", "l", "i", "a", " ", "/", " ", "2", "0",
        "2", "5", " ", "/", " ", "1", "0", "4", " ", "m", "i", "n", "s", " ",
        "/">>
BODY_ADVICE ==
    <<"V", "i", "e", "w", "e", "r", " ", "A", "d", "v", "i", "c", "e", ":",
        " ", "\n", " ", "C", "o", "a", "r", "s", "e", " ", "l", "a", "n",
        "g", "u", "a", "g", "e", " ", "\n", "P", "r", "e", "s", "e", "n",
        "t", "e", "d", " ", "b", "y", " ", "A", "C", "M", "I">>
BODY_NEAR_MISSES ==
    <<"/", "2", "0", "2", "5", "5", "/", " ", "1", " ", "m", "i", "n", "/",
        " ", "V", "i", "e", "w", "e", "r", " ", "A", "d", "v", "i", "c", "e",
        ":", " ", "\n">>

PageBodies == {EMPTY, BODY_PLAIN, BODY_YEAR_RUNTIME, BODY_ADVICE, BODY_NEAR_MISSES}

\* the texts of p elements: two that qualify as descriptions (the second of
\* 51 characters), one of 50 characters, one with a skip word, one that quotes
SYNOPSIS_A ==
    <<" ", " ", "A", " ", "c", "o", "m", "p", "o", "s", "e", "r", " ", "r",
        "e", "t", "u", "r", "n", "s", " ", "t", "o", " ", "a", " ", "c", "o",
        "a", "s", "t", "a", "l", " ", "t", "o", "w", "n", " ", "t", "o", " ",
        "f", "i", "n", "i", "s", "h", " ", "h", "e", "r", " ", "s", "y", "m",
        "p", "h", "o", "n", "y", ".", "\n">>
SYNOPSIS_B ==
    <<"T", "h", "r", "e", "e", " ", "s", "i", "s", "t", "e", "r", "s", " ",
        "s", "e", "l", "l", " ", "t", "h", "e", " ", "f", "a", "m", "i", "l",
        "y", " ", "f", "a", "r", "m", " ", "o", "v", "e", "r", " ", "o", "n",
        "e", " ", "s", "u", "m", "m", "e", "r", ".">>
FIFTY_CHARS ==
    <<"T", "h", "r", "e", "e", " ", "s", "i", "s", "t", "e", "r", "s", " ",
        "s", "e", "l", "l", " ", "t", "h", "e", " ", "f", "a", "m", "i", "l",
        "y", " ", "f", "a", "r", "m", " ", "o", "v", "e", "r", " ", "o", "n",
        "e", " ", "s", "u", "m", "m", "e", "r">>
TICKETS_NOTE ==
    <<"T", "i", "c", "k", "e", "t", "s", " ", "f", "o", "r", " ", "t", "h",
        "i", "s", " ", "s", "e", "s", "s", "i", "o", "n", " ", "a", "r", "e",
        " ", "o", "n", " ", "s", "a", "l", "e", " ", "n", "o", "w", " ", "a",
        "t", " ", "t", "h", "e", " ", "b", "o", "x", " ", "o", "f", "f", "i",
        "c", "e", ".">>
PARAGRAPH_QUOTE ==
    <<"\"", "A", " ", "q", "u", "i", "e", "t", " ", "t", "r", "i", "u", "m",
        "p", "h", ".", "\"", " ">> \o <<EM_DASH>> \o <<" ", "T", "h", "e", " ", "A",
        "g", "e", ",", " ", "M", "e", "l", "b", "o", "u", "r", "n", "e">>

PageParagraphs == {SYNOPSIS_A, SYNOPSIS_B, FIFTY_CHARS, TICKETS_NOTE, PARAGRAPH_QUOTE}

\* the texts of blockquote and q elements: of more than 20 characters, of 21
\* and of 20 once stripped
QUOTE_A ==
    <<" ", "A", "n", " ", "a", "s", "t", "o", "n", "i", "s", "h", "i", "n",
        "g", " ", "d", "e", "b", "u", "t", " ", "f", "e", "a", "t", "u", "r",
        "e", ".", " ">>
QUOTE_B ==
    <<"T", "e", "n", "d", "e", "r", " ", "a", "n", "d", " ", "u", "n", "s",
        "p", "a", "r", "i", "n", "g", ".">>
QUOTE_SHORT ==
    <<"B", "o", "l", "d", ",", " ", "a", "n", "d", " ", "u", "n", "s", "p",
        "a", "r", "i", "n", "g", ".", "\n">>

PageQuotes == {QUOTE_A, QUOTE_B, QUOTE_SHORT}

\* the links of the scenario page: one director and two genres
ScenarioLinks ==
    <<Link(SEARCH_DIRECTOR \o <<"J", "a", "n", "e", "+", "D", "o", "e">>,
           <<"J", "a", "n", "e", " ", "D", "o", "e">>),
      Link(SEARCH_GENRE \o <<"D", "r", "a", "m", "a">>, <<"D", "r", "a", "m", "a">>),
      Link(SEARCH_GENRE \o <<"T", "h", "r", "i", "l", "l", "e", "r">>,
           <<" ", "T", "h", "r", "i", "l", "l", "e", "r", "\n">>)>>

FilmPage(h, ls, body, ps, qs) ==
    [status |-> "ok", url |-> UrlX, h1 |-> h.h1, title_class |-> h.title_class,
     links |-> ls, body |-> body, paragraphs |-> ps, quotes |-> qs]

NoHeading == [h1 |-> <<>>, title_class |-> <<>>]

\* the paragraphs of the pages that vary in their quotes
QuotePageParagraphs == {<<>>, <<PARAGRAPH_QUOTE>>, <<SYNOPSIS_A, PARAGRAPH_QUOTE>>}

\* pages that vary in their headings, in their links, in their body text, in
\* their paragraphs, and in their quotes
FilmPages ==
    {[status |-> "error", url |-> UrlX]}
    \cup
    {FilmPage(h, ls, EMPTY, <<>>, <<>>) : h \in PageHeadings, ls \in {<<>>, ScenarioLinks}}
    \cup
    {FilmPage(NoHeading, ls, EMPTY, <<>>, <<>>) : ls \in SeqsUpTo(PageLinks, MaxLinks)}
    \cup
    {FilmPage(NoHeading, ls, body, ps, <<>>) :
        ls \in {<<>>, ScenarioLinks}, body \in PageBodies, ps \in {<<>>, <<SYNOPSIS_A>>}}
    \cup
    {FilmPage(NoHeading, <<>>, EMPTY, ps, <<>>) :
        ps \in SeqsUpTo(PageParagraphs, MaxParagraphs)}
    \cup
    {FilmPage(NoHeading, <<>>, EMPTY, ps, qs) :
        ps \in QuotePageParagraphs, qs \in SeqsUpTo(PageQuotes, MaxQuotes)}

InitFilm ==
    /\ pc = "idle"
    /\ films_data = <<>>
    /\ sessions_data = <<>>
    /\ combined_data = <<>>
    /\ combined_src = <<>>
    /\ all_sessions = <<>>
    /\ film_page \in FilmPages
    /\ film_data = None
    /\ NoDiscovery
    /\ NoSchedule
    /\ NoRun

NextFilm == scrape_film_details

SpecFilm == InitFilm /\ [][NextFilm]_vars

\* s.split(sep), for a separator of two characters
RECURSIVE SplitOn(_, _)
SplitOn(s, sep) ==
    LET at == {i \in 1..(Len(s) - Len(sep) + 1) : SubSeq(s, i, i + Len(sep) - 1) = sep}
    IN  IF at = {} THEN <<s>>
        ELSE <<SubSeq(s, 1, SetMin(at) - 1)>>
                \o SplitOn(SubSeq(s, SetMin(at) + Len(sep), Len(s)), sep)

NoRepeatedMember(value) ==
    LET members == SplitOn(value, COMMA_SPACE)
    IN  \A i, j \in DOMAIN members : members[i] = members[j] => i = j

\* C8 (list-valued fields hold no duplicates): in the Film scrape_film_details
\* returns, no member occurs twice in the comma-joined countries, languages,
\* genres or strands, whatever hyperlinks the page holds.
C8_ListFieldsHaveNoDuplicates ==
    (pc = "film" /\ film_data # None) =>
        /\ NoRepeatedMember(film_data.countries)
        /\ NoRepeatedMember(film_data.languages)
        /\ NoRepeatedMember(film_data.genres)
        /\ NoRepeatedMember(film_data.strands)

(***************************************************************************)
(* get_all_film_urls on its own.  Listing page p may link film p (with or  *)
(* without a fragment), film p + 1 by its absolute URL, and a page that is *)
(* no film; after the first MaxVariedPages pages a page links film p or    *)
(* nothing.                                                                *)
(***************************************************************************)
DigitChars == <<"0", "1", "2", "3", "4", "5", "6", "7", "8", "9">>

\* str(n) for 0 <= n < 100
NumStr(n) ==
    IF n < 10 THEN <<DigitChars[n + 1]>>
    ELSE <<DigitChars[(n \div 10) + 1], DigitChars[(n % 10) + 1]>>

FilmHref(n) == FILM_PATH \o <<"f">> \o NumStr(n)

ListingHrefs(p) ==
    {FilmHref(p),
     FilmHref(p) \o <<"#", "s", "e", "s", "s", "i", "o", "n", "s">>,
     base_url \o FilmHref(p + 1),
     <<"/", "a", "b", "o", "u", "t">>}

ListingResponses(p) ==
    {[raised |-> TRUE, status_code |-> 0, links |-> <<>>],
     [raised |-> FALSE, status_code |-> 404, links |-> <<>>],
     [raised |-> FALSE, status_code |-> 204, links |-> <<FilmHref(p)>>]}
    \cup
    {[raised |-> FALSE, status_code |-> HTTP_OK, links |-> ls] :
        ls \in IF p <= MaxVariedPages
               THEN SeqsUpTo(ListingHrefs(p), MaxPageLinks)
               ELSE {<<>>, <<FilmHref(p)>>}}

\* the body of the for loop, for page = PAGE_RANGE_START .. PAGE_RANGE_STOP - 1
FetchListingPage ==
    /\ pc = "discover"
    /\ page < PAGE_RANGE_STOP
    /\ \E response \in ListingResponses(page) :
        LET result == ListingIteration(all_film_urls, response)
        IN  /\ all_film_urls' = result.urls
            /\ fetched' = Append(fetched,
                    FetchedEntry(page, response, all_film_urls, result))
            /\ listing_links' = response.links
            /\ IF Breaks(response, result.page_films)
               THEN pc' = "break" /\ page' = page
               ELSE pc' = "discover" /\ page' = page + 1
    /\ film_urls' = film_urls
    /\ UNCHANGED <<dataVars, filmVars, scheduleVars, runVars, consumerVars>>

\* after the loop: film_urls = list(all_film_urls)
ReturnFilmUrls ==
    /\ pc = "break" \/ (pc = "discover" /\ page >= PAGE_RANGE_STOP)
    /\ film_urls' = all_film_urls
    /\ pc' = "discovered"
    /\ UNCHANGED <<page, all_film_urls, fetched, listing_links, dataVars, filmVars, scheduleVars, runVars, consumerVars>>

InitDiscovery ==
    /\ pc = "discover"
    /\ films_data = <<>>
    /\ sessions_data = <<>>
    /\ combined_data = <<>>
    /\ combined_src = <<>>
    /\ all_sessions = <<>>
    /\ NoFilmPage
    /\ page = PAGE_RANGE_START
    /\ all_film_urls = {}
    /\ film_urls = {}
    /\ fetched = <<>>
    /\ listing_links = <<>>
    /\ NoSchedule
    /\ NoRun

NextDiscovery == FetchListingPage \/ ReturnFilmUrls

SpecDiscovery == InitDiscovery /\ [][NextDiscovery]_vars

\* C10 (discovery stopping rule): listing pages are fetched in increasing page
\* number from page 1, and a page is followed by another fetch only if it
\* returned status 200 without raising and enlarged the working set: after the
\* first page with a non-success status or no new URL nothing more is fetched.
C10_DiscoveryStoppingRule ==
    /\ \A i \in DOMAIN fetched : fetched[i].page = i
    /\ \A i \in DOMAIN fetched :
            i < Len(fetched) =>
                /\ ~fetched[i].raised
                /\ fetched[i].status_code = HTTP_OK
                /\ fetched[i].after > fetched[i].before

\* discovery that stopped at a third page, fetched with status 200, that added nothing
C10_Witness ==
    /\ pc = "discovered"
    /\ Len(fetched) = 3
    /\ fetched[3].status_code = HTTP_OK
    /\ fetched[3].after = fetched[3].before
    /\ Cardinality(film_urls) = 3

(***************************************************************************)
(* scrape_schedule_for_date on its own.  A schedule page is an optional    *)
(* text at the top of the document, a chain of nested wrapper tags, and in *)
(* the innermost wrapper a list of cells; a cell is a tag holding an       *)
(* optional text and a hyperlink with its title.                           *)
(***************************************************************************)
Tag(depth) == [kind |-> "tag", depth |-> depth]

Anchor(depth, href) == [kind |-> "a", depth |-> depth, href |-> href]

Text(depth, text) == [kind |-> "text", depth |-> depth, text |-> text]

Cell(depth, c) ==
    <<Tag(depth)>>
        \o (IF c.lead = EMPTY THEN <<>> ELSE <<Text(depth + 1, c.lead)>>)
        \o <<Anchor(depth + 1, c.href), Text(depth + 2, TitleEchoes)>>

RECURSIVE Cells(_, _, _)
Cells(depth, cs, k) ==
    IF k > Len(cs) THEN <<>> ELSE Cell(depth, cs[k]) \o Cells(depth, cs, k + 1)

GridNodes(header, wrap, cs) ==
    (IF header = EMPTY THEN <<>> ELSE <<Text(1, header)>>)
        \o [k \in 1..wrap |-> Tag(k)]
        \o Cells(wrap + 1, cs, 1)

\* a lead long enough for the text around a link to pass 200 characters
GALA_LEAD ==
    <<"F", "o", "r", "u", "m", " ", "M", "e", "l", "b", "o", "u", "r",
        "n", "e", " ", "|", " ", "6", ":", "1", "5", " ", "p", "m", " ",
        "|", " ", "O", "p", "e", "n", "i", "n", "g", " ", "n", "i", "g",
        "h", "t", " ", "g", "a", "l", "a", " ", "w", "i", "t", "h", " ",
        "t", "h", "e", " ", "d", "i", "r", "e", "c", "t", "o", "r", " ",
        "i", "n", " ", "a", "t", "t", "e", "n", "d", "a", "n", "c",
        "e">>

CellLeads ==
    {EMPTY,
     <<" ", "7", "p", "m", "\n">>,
     <<"7", ":", "3", "0", "p", "m", " ", "A", "C", "M", "I">>,
     <<"A", "r", "t", "s", " ", "C", "e", "n", "t", "r", "e">>,
     GALA_LEAD}

CellHrefs ==
    {FILM_PATH \o <<"x", "#", "s", "e", "s", "s", "i", "o", "n", "s">>,
     FILM_PATH \o <<"y">>,
     <<"/", "a", "b", "o", "u", "t">>}

CellChoices ==
    {c \in {[lead |-> l, href |-> h] : l \in CellLeads, h \in CellHrefs} :
        \/ c.lead \in {EMPTY, <<" ", "7", "p", "m", "\n">>} /\ c.href # FILM_PATH \o <<"y">>
        \/ c.lead \notin {EMPTY, <<" ", "7", "p", "m", "\n">>} /\ c.href = FILM_PATH \o <<"y">>}

PageHeaders == {EMPTY, <<"9", "a", "m">>}

SchedulePages ==
    {[status |-> "error", day |-> Date1]}
    \cup
    {[status |-> "ok", day |-> Date1, nodes |-> GridNodes(header, wrap, cs)] :
        header \in PageHeaders, wrap \in 0..MaxWrap, cs \in SeqsUpTo(CellChoices, MaxCells)}
    \cup
    {[status |-> "ok", day |-> Date2, nodes |-> GridNodes(header, 1, cs)] :
        header \in {EMPTY, <<"7", ":", "3", "0", "p", "m">>},
        cs \in SeqsUpTo(CellChoices, MaxCells)}

InitSchedule ==
    /\ pc = "idle"
    /\ films_data = <<>>
    /\ sessions_data = <<>>
    /\ combined_data = <<>>
    /\ combined_src = <<>>
    /\ all_sessions = <<>>
    /\ NoFilmPage
    /\ NoDiscovery
    /\ schedule_page \in SchedulePages
    /\ schedule_sessions = <<>>
    /\ NoRun

NextSchedule == scrape_schedule_for_date

SpecSchedule == InitSchedule /\ [][NextSchedule]_vars

\* the film links of the fetched schedule page
FilmLinksOnPage ==
    IF schedule_page.status # "ok" THEN {}
    ELSE {i \in DOMAIN schedule_page.nodes :
            /\ schedule_page.nodes[i].kind = "a"
            /\ \E k \in 1..(Len(schedule_page.nodes[i].href) - Len(FILM_PATH) + 1) :
                    SubSeq(schedule_page.nodes[i].href, k, k + Len(FILM_PATH) - 1) = FILM_PATH}

\* the returned records that carry a context: those of the first sweep
GridRecords == SelectSeq(schedule_sessions, LAMBDA r : "context" \in DOMAIN r)

\* a time token: one or two digits, optionally ':' and two digits, optional
\* white space, then am or pm
LooksLikeTime(t) ==
    \E h \in 1..2 : \E c \in {0, 3} :
        /\ Len(t) >= h + c + 2
        /\ \A k \in 1..h : t[k] \in Digits
        /\ c = 3 => (t[h + 1] = ":" /\ t[h + 2] \in Digits /\ t[h + 3] \in Digits)
        /\ \A k \in (h + c + 1)..(Len(t) - 2) : t[k] \in Whitespace
        /\ t[Len(t) - 1] \in {"a", "p"}
        /\ t[Len(t)] = "m"

PageHasNoDigit ==
    \A i \in DOMAIN schedule_page.nodes :
        schedule_page.nodes[i].kind = "text" =>
            \A k \in DOMAIN schedule_page.nodes[i].text :
                schedule_page.nodes[i].text[k] \notin Digits

\* C9 as stated (session retention): no record returned by
\* scrape_schedule_for_date has a missing or placeholder time; a film link
\* without a time token is discarded.
C9_NoPlaceholderTime ==
    pc = "schedule" =>
        \A i \in DOMAIN schedule_sessions :
            /\ "time" \in DOMAIN schedule_sessions[i]
            /\ schedule_sessions[i].time # EMPTY
            /\ schedule_sessions[i].time # UNKNOWN

\* C9 as amended: a film link is retained whether or not its time was
\* recoverable.  The first sweep returns one record per film link of the page;
\* every returned record has as its time either a time token or the
\* placeholder 'Unknown', never an empty or missing one; on a page without any
\* digit every film link is returned with time 'Unknown'.
C9_UntimedSessionsKeptAsUnknown ==
    (pc = "schedule" /\ schedule_page.status = "ok") =>
        /\ Len(GridRecords) = Cardinality(FilmLinksOnPage)
        /\ \A i \in DOMAIN schedule_sessions :
            /\ "time" \in DOMAIN schedule_sessions[i]
            /\ schedule_sessions[i].time # EMPTY
            /\ schedule_sessions[i].time = UNKNOWN \/ LooksLikeTime(schedule_sessions[i].time)
        /\ PageHasNoDigit =>
            /\ Len(schedule_sessions) = Cardinality(FilmLinksOnPage)
            /\ \A i \in DOMAIN schedule_sessions : schedule_sessions[i].time = UNKNOWN

\* a page without any time token and with two film links, both returned
C9_Witness ==
    /\ pc = "schedule"
    /\ schedule_page.status = "ok"
    /\ PageHasNoDigit
    /\ Cardinality(FilmLinksOnPage) = 2
    /\ Len(schedule_sessions) = 2
    /\ \A i \in DOMAIN schedule_sessions : schedule_sessions[i].time = UNKNOWN

\* every fetch so far returned status 200 without raising and enlarged the working set
AllPagesProductive ==
    \A i \in DOMAIN fetched :
        /\ ~fetched[i].raised
        /\ fetched[i].status_code = HTTP_OK
        /\ fetched[i].after > fetched[i].before

\* C11 (page bound of 25): no page numbered above 25 is ever fetched, and when
\* every listing page returns success and contributes a new URL, discovery
\* has fetched pages 1 through 25, page 25 included, when it returns.
C11_PageBound25 ==
    /\ \A i \in DOMAIN fetched : fetched[i].page <= PAGE_RANGE_STOP
    /\ (pc = "discovered" /\ AllPagesProductive) =>
            /\ Len(fetched) = PAGE_RANGE_STOP
            /\ fetched[PAGE_RANGE_STOP].page = PAGE_RANGE_STOP

\* the working set before the k-th fetch
UrlsBefore(k) == IF k = 1 THEN {} ELSE fetched[k - 1].urls

\* C12 (discovery failure policy): if the fetch of listing page k raises, the
\* loop is left without an error escaping, no later page is fetched, and the
\* URLs returned are exactly those collected from pages 1..k-1.
C12_DiscoveryFailurePolicy ==
    \A k \in DOMAIN fetched :
        fetched[k].raised =>
            /\ k = Len(fetched)
            /\ pc \in {"break", "discovered"}
            /\ all_film_urls = UrlsBefore(k)
            /\ pc = "discovered" => film_urls = UrlsBefore(k)

\* the third fetch raised after two pages that gave three URLs, all returned
C12_Witness ==
    /\ pc = "discovered"
    /\ Len(fetched) = 3
    /\ fetched[3].raised
    /\ Cardinality(UrlsBefore(3)) = 3
    /\ film_urls = UrlsBefore(3)

\* an absolute URL: it starts with the scheme and host of the site
IsAbsolute(u) == StartsWith(u, HTTPS_SCHEME \o <<"/", "/">>)

\* the indices of the film links of the last page fetched
FilmLinkIndices ==
    {i \in DOMAIN listing_links :
        \E k \in 1..(Len(listing_links[i]) - Len(FILM_PATH) + 1) :
            SubSeq(listing_links[i], k, k + Len(FILM_PATH) - 1) = FILM_PATH}

\* the href up to its '#', if it has one
WithoutFragment(href) ==
    IF \E k \in DOMAIN href : href[k] = "#"
    THEN SubSeq(href, 1, (CHOOSE k \in DOMAIN href :
                            href[k] = "#" /\ \A j \in 1..(k - 1) : href[j] # "#") - 1)
    ELSE href

\* u is the absolute URL of the target of href, fragment apart
IsTargetOf(u, href) ==
    \/ u = WithoutFragment(href)
    \/ u = base_url \o WithoutFragment(href)

\* the last fetch returned status 200 without raising
LastFetchParsed ==
    /\ fetched # <<>>
    /\ ~fetched[Len(fetched)].raised
    /\ fetched[Len(fetched)].status_code = HTTP_OK

\* C13 (discovered URLs are unique and fragment-free): every URL of the
\* working set and of the returned list is absolute and has no '#'; the
\* page_films counter of a page is the number of URLs the page added; and
\* each film link of a parsed page has exactly one URL in the working set,
\* the same one for links that differ only in their fragment.
C13_UrlsUniqueAndFragmentFree ==
    /\ \A u \in all_film_urls \cup film_urls :
            /\ IsAbsolute(u)
            /\ \A k \in DOMAIN u : u[k] # "#"
    /\ \A k \in DOMAIN fetched :
            fetched[k].page_films = fetched[k].after - fetched[k].before
    /\ LastFetchParsed =>
            \A i \in FilmLinkIndices :
                /\ Cardinality({u \in all_film_urls : IsTargetOf(u, listing_links[i])}) = 1
                /\ \A j \in FilmLinkIndices :
                        WithoutFragment(listing_links[i]) = WithoutFragment(listing_links[j]) =>
                            \A u \in all_film_urls :
                                IsTargetOf(u, listing_links[i]) <=> IsTargetOf(u, listing_links[j])

\* a page whose two film links differ only in the fragment added one URL,
\* and a later page that linked the same film by its absolute URL added none
C13_Witness ==
    /\ Len(fetched) = 2
    /\ fetched[1].page_films = 1
    /\ LastFetchParsed
    /\ fetched[2].page_films = 1
    /\ Cardinality(FilmLinkIndices) = 2
    /\ \E i, j \in FilmLinkIndices :
            /\ i # j
            /\ listing_links[i] # listing_links[j]
            /\ WithoutFragment(listing_links[i]) = WithoutFragment(listing_links[j])
    /\ Cardinality(all_film_urls) = 2

\* the thirteen fields of a Film other than film_url and film_id
ExtractedFields == FilmKeys \ {"film_url", "film_id"}

\* a fetched film page without any optional element: no heading, no link,
\* no paragraph, no quote, and a text with neither a '/' nor a viewer-advice
\* label
LacksOptionalElements ==
    /\ film_page.status = "ok"
    /\ film_page.h1 = <<>> /\ film_page.title_class = <<>>
    /\ film_page.links = <<>>
    /\ film_page.paragraphs = <<>> /\ film_page.quotes = <<>>
    /\ \A k \in DOMAIN film_page.body : film_page.body[k] # "/"
    /\ \A k \in 1..(Len(film_page.body) - Len(VIEWER_ADVICE) + 1) :
            SubSeq(film_page.body, k, k + Len(VIEWER_ADVICE) - 1) # VIEWER_ADVICE

\* C14 (field-extractor totality): for a fetched film page scrape_film_details
\* returns a Film record with exactly the fifteen keys, and for a page lacking
\* every optional element the thirteen extracted fields are all the empty string.
C14_FieldExtractorTotality ==
    (pc = "film" /\ film_page.status = "ok") =>
        /\ film_data # None
        /\ DOMAIN film_data = FilmKeys
        /\ film_data.film_url = film_page.url
        /\ LacksOptionalElements => \A k \in ExtractedFields : film_data[k] = EMPTY

\* a page that is only plain text, scraped to a Film with empty fields
C14_Witness ==
    /\ pc = "film"
    /\ LacksOptionalElements
    /\ film_page.body # EMPTY
    /\ film_data # None
    /\ \A k \in ExtractedFields : film_data[k] = EMPTY

\* C15 (the Reconciler does not mutate its inputs): combine_films_and_sessions
\* leaves every record of films_data and of sessions_data as it was, and in
\* every combined row each of the fifteen film fields has the value it has in
\* the Film the row was built from.
C15_ReconcilerDoesNotMutateInputs ==
    [][/\ films_data' = films_data
       /\ sessions_data' = sessions_data
       /\ \A f \in DOMAIN films_data' : DOMAIN films_data'[f] = FilmKeys
       /\ \A i \in DOMAIN combined_data' :
            \A k \in FilmKeys :
                combined_data'[i][k] = films_data[combined_src'[i].film][k]]_vars

\* a titled film combined with a session of its own: the row has the session
\* fields, the film has none
C15_Witness ==
    /\ pc = "combined"
    /\ Len(films_data) = 1
    /\ films_data[1].title # EMPTY
    /\ DOMAIN films_data[1] = FilmKeys
    /\ Len(combined_data) = 1
    /\ combined_src[1].session = 1
    /\ "session_date" \in DOMAIN combined_data[1]
    /\ combined_data[1].session_date = sessions_data[1].date
    /\ combined_data[1].title = films_data[1].title

\* the nineteen columns of the dataset
OutputColumns ==
    {"film_url", "film_id", "title", "director", "year", "runtime", "countries",
     "languages", "genres", "premiere_status", "strands", "description", "synopsis",
     "viewer_advice", "review_quotes", "session_date", "session_time", "session_venue",
     "session_context"}

\* a string, the empty one included: a sequence of characters, as None is not
IsString(v) == v \in Seq(STRING)

\* C16 (fixed output schema): every record of combined_data has exactly the
\* nineteen columns, each holding a string and none holding None; a row built
\* from a session without a context (a 'time_slot' session) has
\* session_context = ''.
C16_FixedOutputSchema ==
    pc = "combined" =>
        \A i \in DOMAIN combined_data :
            /\ DOMAIN combined_data[i] = OutputColumns
            /\ \A k \in OutputColumns : IsString(combined_data[i][k])
            /\ (/\ combined_src[i].session # 0
                /\ "context" \notin DOMAIN sessions_data[combined_src[i].session])
                    => combined_data[i].session_context = EMPTY

\* a row built from a 'time_slot' session, with the nineteen columns
C16_Witness ==
    /\ pc = "combined"
    /\ \E i \in DOMAIN combined_data :
        /\ combined_src[i].session # 0
        /\ "extraction_method" \in DOMAIN sessions_data[combined_src[i].session]
        /\ "context" \notin DOMAIN sessions_data[combined_src[i].session]
        /\ combined_data[i].session_context = EMPTY
        /\ combined_data[i].session_time # EMPTY
        /\ Cardinality(DOMAIN combined_data[i]) = 19

(***************************************************************************)
(* A run: the loop of scrape_all_films over the discovered URLs, then the  *)
(* loop of scrape_all_sessions over the festival dates, one iteration at a *)
(* time, then the de-duplication and combine_films_and_sessions.  A page   *)
(* is fetched (status "ok"), fails to be fetched ("error") or makes the    *)
(* extraction raise ("broken").                                            *)
(***************************************************************************)
FESTIVAL_START_DAY == 7
FESTIVAL_END_DAY == 24
FESTIVAL_MONTH == <<"2", "0", "2", "5", "-", "0", "8", "-">>

\* '%d' of strftime: the day of the month in two digits
TwoDigits(n) == <<DigitChars[(n \div 10) + 1], DigitChars[(n % 10) + 1]>>

\* generate_festival_dates: every day from festival_start to festival_end
FestivalDatesHalfOpen ==
    [i \in 1..(FESTIVAL_END_DAY - FESTIVAL_START_DAY) |->
        FESTIVAL_MONTH \o TwoDigits(FESTIVAL_START_DAY + i - 1)]
festival_dates ==
    [i \in 1..(FESTIVAL_END_DAY - FESTIVAL_START_DAY + 1) |->
        FESTIVAL_MONTH \o TwoDigits(FESTIVAL_START_DAY + i - 1)]

\* what the fetch of a film page may give
RunFilmPages(film_url) ==
    {[status |-> "error", url |-> film_url],
     [status |-> "broken", url |-> film_url],
     [FilmPage([h1 |-> <<TitleEchoes>>, title_class |-> <<>>], <<>>, EMPTY, <<>>, <<>>)
        EXCEPT !.url = film_url],
     [FilmPage([h1 |-> <<TitleEchoesUpper>>, title_class |-> <<>>], ScenarioLinks,
               BODY_YEAR_RUNTIME, <<>>, <<>>)
        EXCEPT !.url = film_url]}

\* a time header and a grid of two cells, each with a film link, the second
\* to a fragment of the film's page: both sweeps return both screenings
TwoCellGrid ==
    GridNodes(<<"7", "p", "m">>, 1,
        <<[lead |-> <<"7", ":", "3", "0", "p", "m", " ", "A", "C", "M", "I">>,
           href |-> FILM_PATH \o <<"y">>],
          [lead |-> EMPTY,
           href |-> FILM_PATH \o <<"x", "#", "s", "e", "s", "s", "i", "o", "n", "s">>]>>)

\* what the fetch of the schedule of the i-th date may give: after the first
\* MaxVariedDates dates, an empty page or a failure
RunSchedulePages(i) ==
    {[status |-> "error", day |-> festival_dates[i]]}
    \cup
    (IF i <= MaxVariedDates
     THEN {[status |-> "ok", day |-> festival_dates[i], nodes |-> TwoCellGrid],
           [status |-> "broken", day |-> festival_dates[i], nodes |-> TwoCellGrid,
            collected |-> 1]}
     ELSE {[status |-> "ok", day |-> festival_dates[i], nodes |-> <<>>]})

\* scrape_all_films, one iteration of its loop: lines 181-189
ScrapeNextFilm ==
    /\ pc = "films"
    /\ film_queue # <<>>
    /\ \E soup \in RunFilmPages(Head(film_queue)) :
        LET film_url == Head(film_queue)
            scraped == ScrapeFilmDetails(film_url, soup)
        IN  /\ film_page' = soup
            /\ film_data' = scraped
            /\ films_data' = IF scraped # None THEN Append(films_data, scraped) ELSE films_data
            /\ failures' = [failures EXCEPT !.films = IF scraped = None THEN @ + 1 ELSE @]
    /\ film_queue' = Tail(film_queue)
    /\ pc' = "films"
    /\ UNCHANGED <<sessions_data, combined_data, combined_src, all_sessions, date_index,
                   requested_days, saved_data, site,
                   discoveryVars, scheduleVars,
                   consumerVars>>

\* scrape_all_films returns and scrape_all_sessions begins: lines 191-192, 300-301
StartSessions ==
    /\ pc = "films"
    /\ film_queue = <<>>
    /\ all_sessions' = <<>>
    /\ date_index' = 1
    /\ film_page' = NoPage
    /\ film_data' = None
    /\ pc' = "dates"
    /\ UNCHANGED <<films_data, sessions_data, combined_data, combined_src, film_queue,
                   failures, requested_days, saved_data, site, discoveryVars, scheduleVars,
                   consumerVars>>

\* scrape_all_sessions, one iteration of its loop: lines 303-309
ScrapeNextDate ==
    /\ pc = "dates"
    /\ date_index <= Len(festival_dates)
    /\ \E response \in RunSchedulePages(date_index) :
        LET date_str == festival_dates[date_index]
            sessions == ScrapeScheduleForDate(date_str, response)
        IN  /\ schedule_page' = response
            /\ schedule_sessions' = sessions
            /\ all_sessions' = all_sessions \o sessions
            /\ failures' = [failures EXCEPT !.dates = IF response.status # "ok" THEN @ + 1 ELSE @]
    /\ date_index' = date_index + 1
    /\ requested_days' = Append(requested_days, festival_dates[date_index])
    /\ pc' = "dates"
    /\ UNCHANGED <<films_data, sessions_data, combined_data, combined_src, film_queue,
                   saved_data, site,
                   filmVars, discoveryVars,
                   consumerVars>>

\* scrape_all_sessions after its loop: lines 311-323
FinishSessions ==
    /\ pc = "dates"
    /\ date_index > Len(festival_dates)
    /\ sessions_data' = unique_sessions(all_sessions)
    /\ pc' = "loaded"
    /\ UNCHANGED <<films_data, combined_data, combined_src, all_sessions, runVars, consumerVars,
                   filmVars, discoveryVars, scheduleVars>>

\* the list get_all_film_urls returns, in the order the loop visits it
RunFilmUrls == {<<>>, <<UrlY>>, <<UrlX, UrlY>>}

\* scrape_all_films up to its loop: get_all_film_urls as a whole, line 179
GetAllFilmUrls ==
    /\ pc = "start"
    /\ film_queue' \in RunFilmUrls
    /\ film_urls' = {film_queue'[i] : i \in DOMAIN film_queue'}
    /\ all_film_urls' = film_urls'
    /\ pc' = "films"
    /\ UNCHANGED <<page, fetched, listing_links, dataVars, filmVars, scheduleVars,
                   date_index, failures, requested_days, saved_data, site,
                   consumerVars>>

SUMMARY_COLS ==
    {"title", "director", "year", "runtime", "countries", "genres", "premiere_status",
     "session_date", "session_venue", "session_time", "film_url"}

\* the CSV files save_all_data writes, one for each list that is not empty,
\* and the summary of the combined rows
SavedFiles(films, sessions, combined) ==
    LET names == (IF films # <<>> THEN {"films"} ELSE {})
                    \cup (IF sessions # <<>> THEN {"sessions"} ELSE {})
                    \cup (IF combined # <<>> THEN {"complete", "summary"} ELSE {})
    IN  [name \in names |->
            CASE name = "films" -> films
              [] name = "sessions" -> sessions
              [] name = "complete" -> combined
              [] name = "summary" ->
                    [j \in DOMAIN combined |-> [k \in SUMMARY_COLS |-> combined[j][k]]]]

\* run_complete_scrape, step 5: lines 476-477
save_all_data ==
    /\ pc = "combined"
    /\ saved_data' = SavedFiles(films_data, sessions_data, combined_data)
    /\ pc' = "saved"
    /\ UNCHANGED <<dataVars, filmVars, discoveryVars, scheduleVars, film_queue, date_index,
                   failures, requested_days, site,
                   consumerVars>>

InitRun ==
    /\ pc = "start"
    /\ films_data = <<>>
    /\ sessions_data = <<>>
    /\ combined_data = <<>>
    /\ combined_src = <<>>
    /\ all_sessions = <<>>
    /\ NoFilmPage
    /\ NoDiscovery
    /\ NoSchedule
    /\ NoRun

NextRun ==
    \/ GetAllFilmUrls
    \/ ScrapeNextFilm
    \/ StartSessions
    \/ ScrapeNextDate
    \/ FinishSessions
    \/ combine_films_and_sessions
    \/ save_all_data

SpecRun == InitRun /\ [][NextRun]_vars

\* s is t or t with something appended
Extends(s, t) == Len(s) >= Len(t) /\ SubSeq(s, 1, Len(t)) = t

\* what holds of a run whenever it is looked at: every discovered URL is
\* visited, failed or not, and gives a record exactly when it did not fail;
\* every festival date is visited, failed or not; a date whose extraction
\* raised gives the sessions collected until then
ErrorIsolationState ==
    /\ Len(films_data) + failures.films + Len(film_queue) = Cardinality(film_urls)
    /\ pc # "films" => Len(films_data) = Cardinality(film_urls) - failures.films
    /\ (pc = "films" /\ film_page # NoPage) =>
            IF film_page.status = "ok"
            THEN /\ film_data # None
                 /\ films_data # <<>>
                 /\ films_data[Len(films_data)].film_url = film_page.url
            ELSE /\ film_data = None
                 /\ \A i \in DOMAIN films_data : films_data[i].film_url # film_page.url
    /\ pc \in {"loaded", "combined"} => date_index = Len(festival_dates) + 1
    /\ (pc = "dates" /\ schedule_page # NoPage) =>
            /\ schedule_page.day = festival_dates[date_index - 1]
            /\ Len(all_sessions) >= Len(schedule_sessions)
            /\ SubSeq(all_sessions, Len(all_sessions) - Len(schedule_sessions) + 1,
                      Len(all_sessions)) = schedule_sessions
            /\ schedule_page.status = "error" => schedule_sessions = <<>>
            /\ schedule_page.status = "broken" =>
                    /\ Len(schedule_sessions) = schedule_page.collected
                    /\ \A i \in DOMAIN schedule_sessions :
                            schedule_sessions[i].date = schedule_page.day

\* what holds of every step of a run: a record appended to films_data or to
\* the session list stays, and a step that fails moves its loop on
ErrorIsolationStep ==
    /\ Extends(films_data', films_data)
    /\ pc = "dates" => Extends(all_sessions', all_sessions)
    /\ failures'.films > failures.films => (pc' = "films" /\ film_queue' = Tail(film_queue))
    /\ failures'.dates > failures.dates => (pc' = "dates" /\ date_index' = date_index + 1)

\* C17 (error isolation): a failure while fetching or extracting one film
\* page or one schedule-date page never aborts the run: the failing film
\* gives no Film record, the failing date gives only the sessions collected
\* before the failure, every other URL and date is still processed, and the
\* records already appended are kept.
C17_ErrorIsolation == []ErrorIsolationState /\ [][ErrorIsolationStep]_vars

\* a run that lost one film page of two and three dates (one of them after a
\* first session) and still ended with one film and five sessions
C17_Witness ==
    /\ pc = "loaded"
    /\ Cardinality(film_urls) = 2
    /\ failures = [films |-> 1, dates |-> 3]
    /\ Len(films_data) = 1
    /\ Len(all_sessions) = 5
    /\ date_index = Len(festival_dates) + 1

\* ---- film_id ----

\* id is what follows the last '/' of url
IsTrailingSegment(id, url) ==
    \E k \in 1..Len(url) :
        /\ url[k] = "/"
        /\ id = SubSeq(url, k + 1, Len(url))
        /\ \A i \in 1..Len(id) : id[i] # "/"

\* url is absolute and has no fragment
IsFragmentFreeAbsolute(url) ==
    IsAbsolute(url) /\ \A i \in 1..Len(url) : url[i] # "#"

\* C18: the film_id of a film record and of a session record built from a
\* schedule link is the trailing segment of the record's absolute,
\* fragment-free film URL, whatever the title and the content of the page,
\* so a film and a session of one URL carry one film_id
C18_FilmIdFromUrlOnly ==
    /\ \A i \in DOMAIN films_data :
            IsTrailingSegment(films_data[i].film_id, films_data[i].film_url)
    /\ \A j \in DOMAIN all_sessions :
            /\ IsFragmentFreeAbsolute(all_sessions[j].film_url)
            /\ IsTrailingSegment(all_sessions[j].film_id, all_sessions[j].film_url)
    /\ \A i \in DOMAIN films_data : \A j \in DOMAIN all_sessions :
            films_data[i].film_url = all_sessions[j].film_url
                => films_data[i].film_id = all_sessions[j].film_id
    /\ \A i \in DOMAIN combined_data :
            IsTrailingSegment(combined_data[i].film_id, combined_data[i].film_url)

\* a film scraped from a page with the other title and a session from a link
\* to a fragment of the same film's page, both with the film_id x
C18_Witness ==
    \E i \in DOMAIN films_data : \E j \in DOMAIN all_sessions :
        /\ films_data[i].film_url = UrlX
        /\ films_data[i].title = TitleEchoesUpper
        /\ all_sessions[j].film_url = UrlX
        /\ all_sessions[j].film_title # films_data[i].title
        /\ all_sessions[j].film_id = <<"x">>
        /\ films_data[i].film_id = <<"x">>

\* ---- the link fields ----

\* the stripped texts of the links whose href has the pattern, in document order
MatchingTexts(links, pattern) ==
    LET matching == SelectSeq(links, LAMBDA link : Contains(link.href, pattern))
    IN  [i \in DOMAIN matching |-> Strip(matching[i].text)]

\* the text of the last of them, if there is one
LastOrEmpty(texts) == IF texts = <<>> THEN EMPTY ELSE texts[Len(texts)]

\* C19: of a film page's hyperlinks, director and premiere_status are the
\* text of the last link matching their pattern, and countries, languages,
\* genres and strands are the texts of the matching links in document order
\* joined by ', '; links matching no pattern count for nothing
C19_LinkClassification ==
    (pc = "film" /\ film_page.status = "ok") =>
        /\ film_data.director
                = LastOrEmpty(MatchingTexts(film_page.links, SEARCH_DIRECTOR))
        /\ film_data.premiere_status
                = LastOrEmpty(MatchingTexts(film_page.links, SEARCH_PREMIERE))
        /\ film_data.countries
                = Join(MatchingTexts(film_page.links, SEARCH_ORIGIN), COMMA_SPACE)
        /\ film_data.languages
                = Join(MatchingTexts(film_page.links, SEARCH_LANGUAGE), COMMA_SPACE)
        /\ film_data.genres
                = Join(MatchingTexts(film_page.links, SEARCH_GENRE), COMMA_SPACE)
        /\ film_data.strands
                = Join(MatchingTexts(film_page.links, STRAND_PATH), COMMA_SPACE)

\* ---- review quotes ----

\* the stripped blockquote and q texts of more than 20 characters, then the
\* quoting paragraphs, each in document order
QuoteCandidates ==
    LET quote_texts == [i \in DOMAIN film_page.quotes |-> Strip(film_page.quotes[i])]
        paragraph_texts == [i \in DOMAIN film_page.paragraphs |->
                                Strip(film_page.paragraphs[i])]
        long_quotes == {i \in DOMAIN quote_texts : Len(quote_texts[i]) > 20}
        quoting == {i \in DOMAIN paragraph_texts :
                        /\ Len(paragraph_texts[i]) > 30
                        /\ \E k \in DOMAIN paragraph_texts[i] :
                                paragraph_texts[i][k] = "\""
                        /\ \E k \in DOMAIN paragraph_texts[i] :
                                paragraph_texts[i][k] \in {EN_DASH, EM_DASH}}
    IN  [quotes |-> SelectSeq(quote_texts, LAMBDA t : Len(t) > 20),
         paragraphs |-> SelectSeq(paragraph_texts,
                            LAMBDA t : \E i \in quoting : paragraph_texts[i] = t),
         long_quotes |-> Cardinality(long_quotes)]

\* the number of separators in a joined field
SeparatorCount(value) ==
    Cardinality({i \in 1..(Len(value) - 2) : SubSeq(value, i, i + 2) = <<" ", "|", " ">>})

\* C20: review_quotes is the ' | '-join of the first three of the blockquote
\* and q texts of more than 20 characters followed by the quoting paragraphs,
\* so it holds three items at most, no paragraph when three blockquotes
\* qualify, and is empty when there is no candidate
C20_ReviewQuotesFirstThree ==
    (pc = "film" /\ film_page.status = "ok") =>
        LET candidates == QuoteCandidates.quotes \o QuoteCandidates.paragraphs
            first == [i \in 1..(IF Len(candidates) < 3 THEN Len(candidates) ELSE 3) |->
                        candidates[i]]
        IN  /\ film_data.review_quotes = Join(first, <<" ", "|", " ">>)
            /\ SeparatorCount(film_data.review_quotes) <= 2
            /\ QuoteCandidates.long_quotes >= 3 =>
                    film_data.review_quotes
                        = Join(SubSeq(QuoteCandidates.quotes, 1, 3), <<" ", "|", " ">>)
            /\ candidates = <<>> => film_data.review_quotes = EMPTY

\* three qualifying blockquotes and a quoting paragraph: the paragraph is cut
C20_Witness ==
    /\ pc = "film"
    /\ film_page.status = "ok"
    /\ QuoteCandidates.long_quotes = 3
    /\ QuoteCandidates.paragraphs # <<>>
    /\ SeparatorCount(film_data.review_quotes) = 2
    /\ film_data.review_quotes
            = Join(SubSeq(QuoteCandidates.quotes, 1, 3), <<" ", "|", " ">>)

\* ---- paragraphs: quotes, description and synopsis ----

\* a paragraph text qualifies for the description scan: more than 50
\* characters and none of the denylist substrings, whatever the case
Qualifies(text) ==
    /\ Len(text) > 50
    /\ \A skip \in SKIP_WORDS : ~Contains(Lower(text), skip)

\* the stripped texts of the page's paragraphs and of its blockquotes
StrippedParagraphs == [i \in DOMAIN film_page.paragraphs |-> Strip(film_page.paragraphs[i])]
StrippedQuotes == {Strip(film_page.quotes[i]) : i \in DOMAIN film_page.quotes}

\* C21: a paragraph's text is part of review_quotes only if the paragraph
\* qualifies for the description scan (more than 50 characters, no denylist
\* substring), besides quoting
C21_QuotesOnlyFromQualifyingParagraphs ==
    (pc = "film" /\ film_page.status = "ok") =>
        \A i \in DOMAIN StrippedParagraphs :
            (/\ StrippedParagraphs[i] # EMPTY
             /\ StrippedParagraphs[i] \notin StrippedQuotes
             /\ Contains(film_data.review_quotes, StrippedParagraphs[i]))
                => Qualifies(StrippedParagraphs[i])

\* the qualifying paragraph texts, in document order
QualifyingParagraphs == SelectSeq(StrippedParagraphs, Qualifies)

\* C22: description is the first qualifying paragraph and synopsis the
\* qualifying paragraphs in document order joined by one space: description
\* is a prefix of synopsis, equal to it when one paragraph qualifies, and both
\* are empty when none does
C22_DescriptionAndSynopsis ==
    (pc = "film" /\ film_page.status = "ok") =>
        /\ film_data.description
                = (IF QualifyingParagraphs = <<>> THEN EMPTY ELSE QualifyingParagraphs[1])
        /\ film_data.synopsis = Join(QualifyingParagraphs, <<" ">>)
        /\ Len(film_data.description) <= Len(film_data.synopsis)
        /\ SubSeq(film_data.synopsis, 1, Len(film_data.description)) = film_data.description
        /\ Len(QualifyingParagraphs) = 1 => film_data.description = film_data.synopsis
        /\ QualifyingParagraphs = <<>> =>
                film_data.description = EMPTY /\ film_data.synopsis = EMPTY

\* two qualifying paragraphs after one with a denylist word: the synopsis is
\* longer than the description
C22_Witness ==
    /\ pc = "film"
    /\ film_page.status = "ok"
    /\ Len(film_page.paragraphs) = 3
    /\ ~Qualifies(StrippedParagraphs[1])
    /\ Len(StrippedParagraphs[1]) > 50
    /\ Len(QualifyingParagraphs) = 2
    /\ film_data.description = QualifyingParagraphs[1]
    /\ film_data.synopsis
            = QualifyingParagraphs[1] \o <<" ">> \o QualifyingParagraphs[2]

\* ---- the first sweep of the schedule extractor ----

\* the film links of the fetched page, in document order
FilmLinkSeq ==
    SelectSeq([k \in DOMAIN schedule_page.nodes |-> k], LAMBDA k : k \in FilmLinksOnPage)

\* the text of up to four ancestors of the link at node i
AncestorsText(i) ==
    ContextText(schedule_page.nodes, ParentOf(schedule_page.nodes, i), 0, EMPTY)

\* a time token begins at position q of s
TimeTokenAt(s, q) ==
    \E n \in 3..9 : q + n - 1 <= Len(s) /\ LooksLikeTime(SubSeq(s, q, q + n - 1))

\* t is the first time token of s, or 'Unknown' when s has none
IsFirstTimeOrUnknown(t, s) ==
    IF \E q \in DOMAIN s : TimeTokenAt(s, q)
    THEN LET first == CHOOSE q \in DOMAIN s :
                        TimeTokenAt(s, q) /\ \A r \in 1..(q - 1) : ~TimeTokenAt(s, r)
         IN  /\ LooksLikeTime(t)
             /\ first + Len(t) - 1 <= Len(s)
             /\ SubSeq(s, first, first + Len(t) - 1) = t
    ELSE t = UNKNOWN

\* the five venue names
VenueNames == {GRID_VENUES[k].name : k \in DOMAIN GRID_VENUES}

\* a venue name begins at position q of s, whatever the case
VenueNameAt(s, q) ==
    \E name \in VenueNames :
        /\ q + Len(name) - 1 <= Len(s)
        /\ Lower(SubSeq(s, q, q + Len(name) - 1)) = Lower(name)

\* v is the venue token at the first venue name of s, or 'Unknown' when s has none
IsFirstVenueOrUnknown(v, s) ==
    IF \E q \in DOMAIN s : VenueNameAt(s, q)
    THEN LET first == CHOOSE q \in DOMAIN s :
                        VenueNameAt(s, q) /\ \A r \in 1..(q - 1) : ~VenueNameAt(s, r)
         IN  /\ VenueNameAt(v, 1)
             /\ first + Len(v) - 1 <= Len(s)
             /\ SubSeq(s, first, first + Len(v) - 1) = v
    ELSE v = UNKNOWN

\* C23: the first sweep returns one record per film link of the page, in
\* document order, with the caller's date, the film URL and id of the link's
\* target without its fragment, the first time token and the first venue
\* token of the text of up to four ancestors, or 'Unknown', and a context of
\* 200 characters at most
C23_GridSweepRecords ==
    (pc = "schedule" /\ schedule_page.status = "ok") =>
        /\ Len(GridRecords) = Len(FilmLinkSeq)
        /\ \A i \in DOMAIN GridRecords :
            LET record == GridRecords[i]
                link == schedule_page.nodes[FilmLinkSeq[i]]
                text == AncestorsText(FilmLinkSeq[i])
            IN  /\ record.date = schedule_page.day
                /\ IsTargetOf(record.film_url, link.href)
                /\ IsFragmentFreeAbsolute(record.film_url)
                /\ IsTrailingSegment(record.film_id, record.film_url)
                /\ IsFirstTimeOrUnknown(record.time, text)
                /\ IsFirstVenueOrUnknown(record.venue, text)
                /\ Len(record.context) <= 200
                /\ record.context = SubSeq(text, 1, Len(record.context))
                /\ Len(text) <= 200 => record.context = text

\* a link to a fragment of a film page, under text of more than 200
\* characters that holds a time and a venue after the link's own cell
C23_Witness ==
    /\ pc = "schedule"
    /\ schedule_page.status = "ok"
    /\ \E i \in DOMAIN GridRecords :
        /\ Len(AncestorsText(FilmLinkSeq[i])) > 200
        /\ Len(GridRecords[i].context) = 200
        /\ \E k \in DOMAIN schedule_page.nodes[FilmLinkSeq[i]].href :
                schedule_page.nodes[FilmLinkSeq[i]].href[k] = "#"
        /\ GridRecords[i].time = <<"6", ":", "1", "5", " ", "p", "m">>
        /\ GridRecords[i].venue
                = <<"F", "o", "r", "u", "m", " ", "M", "e", "l", "b", "o", "u", "r", "n", "e">>

\* ---- the second sweep of the schedule extractor ----

\* the returned records that carry the extraction-method marker
SlotRecords == SelectSeq(schedule_sessions, LAMBDA r : "extraction_method" \in DOMAIN r)

\* an exact time token: H am/pm or H:MM am/pm, nothing else
IsExactTimeToken(t) ==
    /\ LooksLikeTime(t)
    /\ \A k \in DOMAIN t : t[k] \notin Whitespace

\* the text nodes whose trimmed text is exactly a time token
SlotAnchors ==
    {i \in DOMAIN schedule_page.nodes :
        /\ schedule_page.nodes[i].kind = "text"
        /\ IsExactTimeToken(Strip(schedule_page.nodes[i].text))}

\* an anchor and a film link nested in the anchor's container
SlotPairs ==
    {p \in SlotAnchors \X FilmLinksOnPage :
        LET container == ParentOf(schedule_page.nodes, p[1])
        IN  p[2] > container /\ p[2] <= SubtreeEnd(schedule_page.nodes, container)}

\* C24: every text node that is exactly a time token, H am/pm or H:MM am/pm,
\* is a time-slot anchor, and every film link nested in the anchor's
\* container gives one record with that token as its time and the marker
\* 'time_slot'; no other text node gives a record
C24_TimeSlotAnchors ==
    (pc = "schedule" /\ schedule_page.status = "ok") =>
        /\ Len(SlotRecords) = Cardinality(SlotPairs)
        /\ \A p \in SlotPairs : \E i \in DOMAIN SlotRecords :
            /\ SlotRecords[i].time = Strip(schedule_page.nodes[p[1]].text)
            /\ IsTargetOf(SlotRecords[i].film_url, schedule_page.nodes[p[2]].href)
            /\ SlotRecords[i].extraction_method = "time_slot"
        /\ \A i \in DOMAIN SlotRecords : \E p \in SlotPairs :
            SlotRecords[i].time = Strip(schedule_page.nodes[p[1]].text)

\* C25: the second sweep finds in the text of an anchor's container the venue
\* the first sweep's search finds in the same text, the first of the five
\* venue names or 'Unknown'
C25_SameVenueSearch ==
    (pc = "schedule" /\ schedule_page.status = "ok") =>
        \A i \in DOMAIN SlotRecords : \E p \in SlotPairs :
            /\ SlotRecords[i].time = Strip(schedule_page.nodes[p[1]].text)
            /\ IsTargetOf(SlotRecords[i].film_url, schedule_page.nodes[p[2]].href)
            /\ IsFirstVenueOrUnknown(SlotRecords[i].venue,
                    GetText(schedule_page.nodes, ParentOf(schedule_page.nodes, p[1])))

\* ---- the dates of the festival ----

\* the days of the month from the 7th to the 24th, as written in a date
ExpectedDays ==
    <<<<"0", "7">>, <<"0", "8">>, <<"0", "9">>, <<"1", "0">>, <<"1", "1">>,
      <<"1", "2">>, <<"1", "3">>, <<"1", "4">>, <<"1", "5">>, <<"1", "6">>,
      <<"1", "7">>, <<"1", "8">>, <<"1", "9">>, <<"2", "0">>, <<"2", "1">>,
      <<"2", "2">>, <<"2", "3">>, <<"2", "4">>>>

\* 2025-08-07 to 2025-08-24 as YYYY-MM-DD
ExpectedDates ==
    [i \in DOMAIN ExpectedDays |->
        <<"2", "0", "2", "5", "-", "0", "8", "-">> \o ExpectedDays[i]]

\* C26: generate_festival_dates gives the 18 dates from 2025-08-07 to
\* 2025-08-24 in ascending order, and scrape_all_sessions requests the
\* schedule page of each of them once, in that order, whether or not an
\* earlier date failed
C26_ClosedFestivalRange ==
    /\ festival_dates = ExpectedDates
    /\ Len(festival_dates) = 18
    /\ Len(requested_days) <= 18
    /\ requested_days = SubSeq(ExpectedDates, 1, Len(requested_days))
    /\ pc = "dates" => Len(requested_days) = date_index - 1
    /\ pc \in {"loaded", "combined", "saved"} => requested_days = ExpectedDates

\* the sessions are loaded after some date failed, and every date was requested
C26_Witness ==
    /\ pc = "loaded"
    /\ failures.dates >= 1
    /\ failures.dates < 18
    /\ requested_days = ExpectedDates
    /\ requested_days[18] = <<"2", "0", "2", "5", "-", "0", "8", "-", "2", "4">>
    /\ all_sessions # <<>>

\* ---- the stages of a run ----

\* the position of a run among its stages
StageOf(position) ==
    CASE position = "start" -> 1
      [] position = "films" -> 2
      [] position = "dates" -> 3
      [] position = "loaded" -> 4
      [] position = "combined" -> 5
      [] position = "saved" -> 6

\* what each stage has and has not done yet
StageOrderState ==
    /\ pc = "start" => film_urls = {} /\ films_data = <<>>
    /\ pc \in {"start", "films"} =>
            all_sessions = <<>> /\ requested_days = <<>> /\ sessions_data = <<>>
    /\ pc = "dates" => film_queue = <<>> /\ sessions_data = <<>>
    /\ pc \in {"start", "films", "dates", "loaded"} => combined_data = <<>> /\ saved_data = None
    /\ pc \in {"loaded", "combined", "saved"} =>
            /\ requested_days = festival_dates
            /\ DistinctKeys(sessions_data)
            /\ \A i \in DOMAIN all_sessions : \E j \in DOMAIN sessions_data :
                    SessionKey(sessions_data[j]) = SessionKey(all_sessions[i])
    /\ pc = "combined" => saved_data = None
    /\ pc = "saved" =>
            /\ "complete" \in DOMAIN saved_data <=> combined_data # <<>>
            /\ combined_data # <<>> => saved_data["complete"] = combined_data

\* a step stays in its stage or enters the next one; the reconciler reads the
\* de-duplicated list and the writer the combined rows
StageOrderStep ==
    /\ StageOf(pc') \in {StageOf(pc), StageOf(pc) + 1}
    /\ combined_data' # combined_data =>
            pc \in {"loaded", "combined"} /\ DistinctKeys(sessions_data)
    /\ saved_data' # saved_data => pc = "combined"

\* C27: a run goes through URL discovery, film extraction, session
\* extraction and de-duplication, reconciliation and writing in that order,
\* each stage starting when the one before has finished: the reconciler reads
\* only a de-duplicated session list and the writer runs only after
\* combined_data was assigned
C27_StageOrdering == []StageOrderState /\ [][StageOrderStep]_vars

\* a run that wrote the rows of a film and its session, two sweeps having
\* returned the same screening
C27_Witness ==
    /\ pc = "saved"
    /\ DOMAIN saved_data = {"films", "sessions", "complete", "summary"}
    /\ Len(all_sessions) > Len(sessions_data)
    /\ \E j \in DOMAIN saved_data["complete"] : saved_data["complete"][j].session_time # EMPTY

(***************************************************************************)
(* parse_session_datetime of the calendar application, which reads the    *)
(* date and time texts the scraper wrote.                                  *)
(***************************************************************************)
\* an exception raised inside the try block
RAISED == [raised |-> TRUE]

\* int() of a string of digits
RECURSIVE ToNat(_)
ToNat(digits) ==
    IF digits = <<>> THEN 0
    ELSE 10 * ToNat(SubSeq(digits, 1, Len(digits) - 1))
            + (CHOOSE d \in 0..9 : DigitChars[d + 1] = digits[Len(digits)])

AllDigits(s) == s # <<>> /\ \A k \in DOMAIN s : s[k] \in Digits

\* \w
WordChars == DOMAIN UpperToLower \cup {UpperToLower[c] : c \in DOMAIN UpperToLower}
                \cup Digits \cup {"_"}

\* str.split(): the runs of characters between white space
RECURSIVE Words(_)
Words(s) ==
    LET t == Strip(s)
        spaces == {k \in DOMAIN t : t[k] \in Whitespace}
    IN  IF t = EMPTY THEN <<>>
        ELSE IF spaces = {} THEN <<t>>
        ELSE <<SubSeq(t, 1, SetMin(spaces) - 1)>> \o Words(SubSeq(t, SetMin(spaces), Len(t)))

\* str.replace(old, new) for one character
ReplaceChar(s, old, new) == [k \in DOMAIN s |-> IF s[k] = old THEN new ELSE s[k]]

\* str.replace(old, '') for one character
RemoveChar(s, old) == SelectSeq(s, LAMBDA c : c # old)

MONTH_ABBR ==
    <<<<"j", "a", "n">>, <<"f", "e", "b">>, <<"m", "a", "r">>, <<"a", "p", "r">>, <<"m", "a", "y">>, <<"j", "u", "n">>,
      <<"j", "u", "l">>, <<"a", "u", "g">>, <<"s", "e", "p">>, <<"o", "c", "t">>, <<"n", "o", "v">>, <<"d", "e", "c">>>>

\* the days of the months of a year that is not a leap year
DaysInMonth == <<31, 28, 31, 30, 31, 30, 31, 31, 30, 31, 30, 31>>

\* datetime(year, month, day): the date, or the exception for a day the month lacks
MakeDate(year, month, day) ==
    IF month \in 1..12 /\ day >= 1 /\ day <= DaysInMonth[month]
    THEN [year |-> year, month |-> month, day |-> day] ELSE RAISED

\* re.match(r'\d{1,2}\s+\w+', date_str)
LooksLikeDayMonth(date_str) ==
    \E n \in {1, 2} :
        /\ DigitsAt(date_str, 1, n)
        /\ CharAt(date_str, n + 1, Whitespace)
        /\ CharAt(date_str, SkipSpace(date_str, n + 1), WordChars)

\* datetime.strptime(date_str, '%d %b %Y'): a day, an abbreviated month name
\* in any case and a year of four digits, nothing more
StrptimeDayMonthYear(date_str) ==
    LET words == Words(date_str)
    IN  IF /\ Len(words) = 3
           /\ AllDigits(words[1]) /\ Len(words[1]) <= 2 /\ ToNat(words[1]) \in 1..31
           /\ \E m \in DOMAIN MONTH_ABBR : MONTH_ABBR[m] = Lower(words[2])
           /\ AllDigits(words[3]) /\ Len(words[3]) = 4
        THEN MakeDate(ToNat(words[3]),
                      CHOOSE m \in DOMAIN MONTH_ABBR : MONTH_ABBR[m] = Lower(words[2]),
                      ToNat(words[1]))
        ELSE RAISED

\* pd.to_datetime(date_str, errors='coerce') for a text written YYYY-MM-DD,
\* and for a text that holds no date, which gives NaT
NAT == [NaT |-> TRUE]
ToDatetime(date_str) ==
    IF /\ Len(date_str) = 10
       /\ DigitsAt(date_str, 1, 4) /\ date_str[5] = "-"
       /\ DigitsAt(date_str, 6, 2) /\ date_str[8] = "-"
       /\ DigitsAt(date_str, 9, 2)
       /\ MakeDate(ToNat(SubSeq(date_str, 1, 4)), ToNat(SubSeq(date_str, 6, 7)),
                   ToNat(SubSeq(date_str, 9, 10))) # RAISED
    THEN MakeDate(ToNat(SubSeq(date_str, 1, 4)), ToNat(SubSeq(date_str, 6, 7)),
                  ToNat(SubSeq(date_str, 9, 10)))
    ELSE NAT

\* lines 221-234: the date, NAT when the function returns None, or RAISED
ParseDate(date_str) ==
    IF LooksLikeDayMonth(date_str)
    THEN StrptimeDayMonthYear(date_str \o <<" ", "2", "0", "2", "5">>)
    ELSE ToDatetime(date_str)

\* %M of strptime: [0-5]\d|\d
IsMinuteText(s) ==
    \/ Len(s) = 2 /\ s[1] \in {"0", "1", "2", "3", "4", "5"} /\ s[2] \in Digits
    \/ Len(s) = 1 /\ s[1] \in Digits

\* datetime.strptime(s, '%I:%M%p').time() on a lower-case string: an hour
\* from 1 to 12, ':', minutes, am or pm, nothing more
StrptimeTwelveHour(s) ==
    LET colons == Positions(s, ":")
        colon == SetMin(colons)
        hour_text == SubSeq(s, 1, colon - 1)
        minute_text == SubSeq(s, colon + 1, Len(s) - 2)
        marker == SubSeq(s, Len(s) - 1, Len(s))
    IN  IF colons = {} \/ Len(s) < colon + 3 THEN RAISED
        ELSE IF /\ AllDigits(hour_text) /\ Len(hour_text) <= 2 /\ ToNat(hour_text) \in 1..12
                /\ IsMinuteText(minute_text)
                /\ marker \in {<<"a", "m">>, <<"p", "m">>}
        THEN [hour |-> (ToNat(hour_text) % 12) + (IF marker = <<"p", "m">> THEN 12 ELSE 0),
              minute |-> ToNat(minute_text)]
        ELSE RAISED

\* datetime.strptime(s, '%H:%M').time(): an hour from 0 to 23, ':', minutes
StrptimeTwentyFourHour(s) ==
    LET colons == Positions(s, ":")
        colon == SetMin(colons)
        hour_text == SubSeq(s, 1, colon - 1)
        minute_text == SubSeq(s, colon + 1, Len(s))
    IN  IF colons = {} THEN RAISED
        ELSE IF /\ AllDigits(hour_text) /\ Len(hour_text) <= 2 /\ ToNat(hour_text) \in 0..23
                /\ IsMinuteText(minute_text)
        THEN [hour |-> ToNat(hour_text), minute |-> ToNat(minute_text)]
        ELSE RAISED

PM == <<"p", "m">>
AM == <<"a", "m">>

\* int(text) of the hour-only branch: the exception for what is not a number
HourOnly(text, marker) ==
    IF ~AllDigits(text) THEN RAISED
    ELSE LET hour == IF marker = PM THEN (IF ToNat(text) # 12 THEN ToNat(text) + 12
                                          ELSE ToNat(text))
                     ELSE (IF ToNat(text) = 12 THEN 0 ELSE ToNat(text))
         IN  IF hour \in 0..23 THEN [hour |-> hour, minute |-> 0] ELSE RAISED

\* text without its first marker: str.replace for the strings that hold one
WithoutMarker(text, marker) ==
    LET at == {k \in 1..(Len(text) - 1) : SubSeq(text, k, k + 1) = marker}
    IN  IF at = {} THEN text
        ELSE SubSeq(text, 1, SetMin(at) - 1) \o SubSeq(text, SetMin(at) + 2, Len(text))

\* lines 236-259: the time, NAT when the function returns None, or RAISED
ParseTime(time_text) ==
    LET time_str == RemoveChar(ReplaceChar(time_text, ".", ":"), " ")
    IN  IF Contains(Lower(time_str), PM) THEN StrptimeTwelveHour(Lower(time_str))
        ELSE IF Contains(Lower(time_str), AM) THEN StrptimeTwelveHour(Lower(time_str))
        ELSE IF Contains(time_str, <<":">>) THEN StrptimeTwentyFourHour(time_str)
        ELSE IF Contains(Lower(time_str), PM)
            THEN HourOnly(WithoutMarker(Lower(time_str), PM), PM)
        ELSE IF Contains(Lower(time_str), AM)
            THEN HourOnly(WithoutMarker(Lower(time_str), AM), AM)
        ELSE NAT

MELBOURNE == "Australia/Melbourne"

\* the function: None for a missing value, for a date pandas cannot read and
\* for any exception, else the date and time localised to Melbourne
ParseSessionDatetime(args) ==
    IF args.date_isna \/ args.time_isna THEN None
    ELSE LET dt == ParseDate(Strip(args.session_date))
             time_obj == ParseTime(Strip(args.session_time))
         IN  IF dt \in {RAISED, NAT} THEN None
             ELSE IF time_obj \in {RAISED, NAT} THEN None
             ELSE [year |-> dt.year, month |-> dt.month, day |-> dt.day,
                   hour |-> time_obj.hour, minute |-> time_obj.minute, tzinfo |-> MELBOURNE]

parse_session_datetime ==
    /\ pc = "idle"
    /\ parsed' = ParseSessionDatetime(parse_args)
    /\ pc' = "parsed"
    /\ UNCHANGED <<parse_args, dataVars, filmVars, discoveryVars, scheduleVars, film_queue,
                   date_index, failures, requested_days, saved_data, site>>

\* the date texts: those the scraper writes, day and month, and texts that do
\* not parse
SessionDates ==
    {<<"2", "0", "2", "5", "-", "0", "8", "-", "0", "7">>,
     <<"2", "0", "2", "5", "-", "0", "8", "-", "2", "4">>,
     <<" ", "2", "0", "2", "5", "-", "0", "8", "-", "1", "0", " ">>,
     <<"2", "5", " ", "A", "u", "g">>,
     <<"7", " ", "a", "u", "g">>,
     <<"2", "5", " ", "A", "u", "g", " ", "2", "0", "2", "5">>,
     <<"T", "B", "A">>,
     <<"2", "0", "2", "5", "-", "0", "2", "-", "3", "0">>}

\* the time texts: hour only, hour and minutes, 24-hour, and texts that do
\* not parse
SessionTimes ==
    {<<"6", "p", "m">>,
     <<"1", "0", "a", "m">>,
     <<"1", "2", "p", "m">>,
     <<"1", "2", "a", "m">>,
     <<"7", "p", "m">>,
     <<"6", ":", "1", "5", "p", "m">>,
     <<"6", ".", "1", "5", "p", "m">>,
     <<"7", ":", "3", "0", " ", "p", "m">>,
     <<"1", "1", ":", "4", "5", "a", "m">>,
     <<"1", "2", ":", "0", "5", "a", "m">>,
     <<"1", "2", ":", "3", "0", "P", "M">>,
     <<"1", "8", ":", "3", "0">>,
     <<"U", "n", "k", "n", "o", "w", "n">>,
     <<"1", "3", ":", "0", "0", "p", "m">>,
     <<"7", ":", "5", "p", "m">>,
     <<"2", "4", ":", "0", "0">>}

ParseArgs ==
    {[session_date |-> d, session_time |-> t, date_isna |-> FALSE, time_isna |-> FALSE] :
        d \in SessionDates, t \in SessionTimes}
    \cup
    {[session_date |-> <<"n", "a", "n">>, session_time |-> <<"7", "p", "m">>,
      date_isna |-> TRUE, time_isna |-> FALSE],
     [session_date |-> <<"2", "0", "2", "5", "-", "0", "8", "-", "0", "7">>,
      session_time |-> <<"n", "a", "n">>, date_isna |-> FALSE, time_isna |-> TRUE]}

InitParse ==
    /\ pc = "idle"
    /\ films_data = <<>>
    /\ sessions_data = <<>>
    /\ combined_data = <<>>
    /\ combined_src = <<>>
    /\ all_sessions = <<>>
    /\ NoFilmPage
    /\ NoDiscovery
    /\ NoSchedule
    /\ film_queue = <<>> /\ date_index = 1 /\ failures = [films |-> 0, dates |-> 0]
    /\ requested_days = <<>> /\ saved_data = None /\ site = NoSite
    /\ parse_args \in ParseArgs
    /\ parsed = None

NextParse == parse_session_datetime

SpecParse == InitParse /\ [][NextParse]_vars

\* an hour and am or pm, without minutes
IsHourOnly(t) ==
    /\ Len(t) \in {3, 4}
    /\ \A k \in 1..(Len(t) - 2) : t[k] \in Digits
    /\ SubSeq(t, Len(t) - 1, Len(t)) \in {<<"a", "m">>, <<"p", "m">>}

\* the hour of the day of an hour-only time: pm adds 12 except to 12, 12am is 0
HourOfDay(t) ==
    LET h == ToNat(SubSeq(t, 1, Len(t) - 2))
    IN  IF SubSeq(t, Len(t) - 1, Len(t)) = <<"p", "m">>
        THEN (IF h = 12 THEN 12 ELSE h + 12)
        ELSE (IF h = 12 THEN 0 ELSE h)

\* C28: for a date that parses and a time made of an hour and am or pm
\* without minutes, parse_session_datetime returns the Melbourne datetime at
\* that hour and minute 0, not None
C28_HourOnlyTimesParse ==
    (/\ pc = "parsed"
     /\ ~parse_args.date_isna /\ ~parse_args.time_isna
     /\ ParseDate(Strip(parse_args.session_date)) \notin {RAISED, NAT}
     /\ IsHourOnly(Strip(parse_args.session_time))) =>
        /\ parsed # None
        /\ parsed.hour = HourOfDay(Strip(parse_args.session_time))
        /\ parsed.minute = 0
        /\ parsed.tzinfo = "Australia/Melbourne"

(***************************************************************************)
(* Traceability of the combined rows.                                      *)
(***************************************************************************)
\* the session has the row's film id, or its lower-cased film title is the
\* row's lower-cased title
SessionOfRow(row, session) ==
    \/ session.film_id = row.film_id
    \/ Lower(session.film_title) = Lower(row.title)

\* the session matches no Film, by id or by lower-cased title
IsOrphan(s) == \A f \in DOMAIN films_data : ~IdMatch(f, s) /\ ~TitleMatch(f, s)

\* C29 (traceable rows, dropped orphans): each record of combined_data other
\* than a sessionless placeholder takes its session_date, session_venue and
\* session_time from one record of sessions_data whose film_id equals the row's
\* film_id or whose lower-cased film_title equals the row's lower-cased title;
\* a session that matches no Film under either rule produces no combined row.
C29_TraceableRowsNoOrphans ==
    pc = "combined" =>
        /\ \A j \in DOMAIN combined_data :
            ~IsPlaceholder(combined_data[j]) =>
                \E s \in DOMAIN sessions_data :
                    /\ combined_data[j].session_date = sessions_data[s].date
                    /\ combined_data[j].session_venue = sessions_data[s].venue
                    /\ combined_data[j].session_time = sessions_data[s].time
                    /\ SessionOfRow(combined_data[j], sessions_data[s])
        /\ \A s \in DOMAIN sessions_data :
            IsOrphan(s) => \A j \in DOMAIN combined_src : combined_src[j].session # s

\* a join that drops an orphan session and builds a row from a session matched
\* by title only
C29_Witness ==
    /\ pc = "combined"
    /\ \E s \in DOMAIN sessions_data : IsOrphan(s)
    /\ \E j \in DOMAIN combined_src :
        /\ combined_src[j].session # 0
        /\ ~IdMatch(combined_src[j].film, combined_src[j].session)
        /\ TitleMatch(combined_src[j].film, combined_src[j].session)

(***************************************************************************)
(* Repeated operations on one scraper object.  The site is fixed when the  *)
(* object is built: the list get_all_film_urls returns, the page behind    *)
(* each film URL and the schedule of the first festival day (the other     *)
(* days have an empty schedule).  The three methods are then called in any *)
(* order, any number of times, each call as a whole.                       *)
(***************************************************************************)
MaxRepeatFilms == 4

RepeatSites ==
    {[urls |-> us, pages |-> ps, first_day |-> sp] :
        us \in RunFilmUrls,
        ps \in {f \in [{UrlX, UrlY} -> RunFilmPages(UrlX) \cup RunFilmPages(UrlY)] :
                    \A u \in {UrlX, UrlY} : f[u] \in RunFilmPages(u)},
        sp \in RunSchedulePages(1)}

\* the response of the site for the schedule of the i-th festival day
SiteSchedule(s, i) ==
    IF i = 1 THEN s.first_day
    ELSE [status |-> "ok", day |-> festival_dates[i], nodes |-> <<>>]

\* the loop of scrape_all_films from the i-th URL on: lines 181-189
RECURSIVE AppendScraped(_, _, _)
AppendScraped(s, i, films) ==
    IF i > Len(s.urls) THEN films
    ELSE LET film_url == s.urls[i]
             scraped == ScrapeFilmDetails(film_url, s.pages[film_url])
         IN  AppendScraped(s, i + 1,
                 IF scraped # None THEN Append(films, scraped) ELSE films)

\* the loop of scrape_all_sessions from the i-th date on: lines 303-309
RECURSIVE ExtendSessions(_, _, _)
ExtendSessions(s, i, sessions) ==
    IF i > Len(festival_dates) THEN sessions
    ELSE ExtendSessions(s, i + 1,
             sessions \o ScrapeScheduleForDate(festival_dates[i], SiteSchedule(s, i)))

\* scrape_all_films as one call: lines 175-192
ScrapeAllFilms ==
    /\ pc \in {"loaded", "combined"}
    /\ Len(films_data) + Len(site.urls) <= MaxRepeatFilms
    /\ films_data' = AppendScraped(site, 1, films_data)
    /\ pc' = "loaded"
    /\ UNCHANGED <<sessions_data, combined_data, combined_src, all_sessions,
                   filmVars, discoveryVars, scheduleVars, runVars, consumerVars>>

\* scrape_all_sessions as one call: lines 296-323
ScrapeAllSessions ==
    /\ pc \in {"loaded", "combined"}
    /\ all_sessions' = ExtendSessions(site, 1, <<>>)
    /\ sessions_data' = unique_sessions(all_sessions')
    /\ pc' = "loaded"
    /\ UNCHANGED <<films_data, combined_data, combined_src,
                   filmVars, discoveryVars, scheduleVars, runVars, consumerVars>>

InitRepeat ==
    /\ pc = "loaded"
    /\ films_data = <<>>
    /\ sessions_data = <<>>
    /\ combined_data = <<>>
    /\ combined_src = <<>>
    /\ all_sessions = <<>>
    /\ NoFilmPage
    /\ NoDiscovery
    /\ NoSchedule
    /\ film_queue = <<>> /\ date_index = 1 /\ failures = [films |-> 0, dates |-> 0]
    /\ requested_days = <<>> /\ saved_data = None
    /\ parse_args = None /\ parsed = None
    /\ site \in RepeatSites

NextRepeat ==
    \/ ScrapeAllFilms
    \/ ScrapeAllSessions
    \/ combine_films_and_sessions

SpecRepeat == InitRepeat /\ [][NextRepeat]_vars

\* a call of combine_films_and_sessions straight after another one leaves
\* combined_data with the rows it had
RecombineKeepsRows ==
    (pc = "combined" /\ pc' = "combined") => combined_data' = combined_data

\* C30 (one Film per page across repeated operations): after any sequence of
\* calls to scrape_all_films, scrape_all_sessions and combine_films_and_sessions
\* on one scraper object against an unchanged site, films_data holds at most one
\* Film record per film_url, and calling combine_films_and_sessions again
\* replaces combined_data with the same rows instead of appending to it.
C30_OneFilmPerPage ==
    /\ []DistinctUrls(films_data)
    /\ [][RecombineKeepsRows]_vars

====
